---- MODULE Spec2Model ----
(***************************************************************************)
(* Verification model of durable-research-intelligence: the model gateway  *)
(* (src/lib/ai/utils.ts), the REST boundary (src/app/api/research) and the  *)
(* research workflow those routes create sessions for.                      *)
(***************************************************************************)
EXTENDS Integers, Sequences, FiniteSets, TLC

\* ------------------------------------------------------------------ bounds
\* Largest token count a provider reports in one usage field.
MaxTok == 1

\* ------------------------------------------------- model gateway: constants
\* MODELS (src/lib/ai/providers.ts): logical model name -> model identifier.
MODELS ==
  [decomposition |-> "deepseek-r1", synthesis |-> "qwen3", fallback |-> "gemini-2.5-flash"]

ModelNames == {"decomposition", "synthesis"}

\* `${MODELS[modelName]}:latest`
Latest(m) == <<m, ":latest">>

\* The failures generateText can end in (network, non-2xx, malformed response):
\* the message of the Error it throws.
ErrorMessages == {"network", "non2xx", "malformed"}

\* Generated text of a successful call.
Texts == {"md"}

\* ---------------------------------------------------- usage normalisation
Absent == -1

UsageFields ==
  {"promptTokens", "completionTokens", "inputTokens", "outputTokens", "totalTokens"}

\* result.usage as a provider hands it back: any field may be missing.
RawUsages == [UsageFields -> {Absent} \cup (0 .. MaxTok)]

\* a ?? b
Coalesce(a, b) == IF a # Absent THEN a ELSE b

\* a || b: zero counts as missing too
CoalesceOr(a, b) == IF a # Absent /\ a # 0 THEN a ELSE b

\* As normalizeUsage, with || in place of ??.
normalizeUsageOr(rawUsage) ==
  LET promptTokens == CoalesceOr(rawUsage.promptTokens, CoalesceOr(rawUsage.inputTokens, 0))
      completionTokens ==
        CoalesceOr(rawUsage.completionTokens, CoalesceOr(rawUsage.outputTokens, 0))
      totalTokens == CoalesceOr(rawUsage.totalTokens, promptTokens + completionTokens)
  IN [promptTokens |-> promptTokens,
      completionTokens |-> completionTokens,
      totalTokens |-> totalTokens]

normalizeUsage(rawUsage) ==
  LET promptTokens == Coalesce(rawUsage.promptTokens, Coalesce(rawUsage.inputTokens, 0))
      completionTokens ==
        Coalesce(rawUsage.completionTokens, Coalesce(rawUsage.outputTokens, 0))
      totalTokens == Coalesce(rawUsage.totalTokens, promptTokens + completionTokens)
  IN [promptTokens |-> promptTokens,
      completionTokens |-> completionTokens,
      totalTokens |-> totalTokens]

ZeroUsage == [promptTokens |-> 0, completionTokens |-> 0, totalTokens |-> 0]

\* A provider response that carries no usage at all (rawUsage ?? {}).
NoUsage == [f \in UsageFields |-> Absent]

\* ------------------------------------------------------------ the callers
\* scripts/test-ollama.ts calls generateTextWithFallback on its own; the
\* workflow of session s calls it for decomposition and synthesis. Sessions
\* share nothing but the table, so the workflow is followed for one session.
ScriptCaller == 0
SessionIds == {1}
Callers == {ScriptCaller} \cup SessionIds

VARIABLES
  apiKey,   \* process.env.GOOGLE_GENERATIVE_AI_API_KEY is set
  gw        \* per caller: the activation of generateTextWithFallback

gwVars == <<apiKey, gw>>

\* ----------------------------------------------- generateTextWithFallback
\* error instanceof Error ? error.message : String(error)
ErrText(error) == error.message

NoError == [message |-> ""]

KeyNotSet == "GOOGLE_GENERATIVE_AI_API_KEY is not set"

\* The message of a thrown Error, as the pieces the template string joins.
NoKeyMessage(error) ==
  <<"Ollama failed and ", KeyNotSet, ". Original error: ", ErrText(error)>>

BothFailedMessageRethrow(error, fallbackError) ==
  <<ErrText(fallbackError)>>

BothFailedMessage(error, fallbackError) ==
  <<"Both Ollama and Gemini fallback failed. Ollama error: ", ErrText(error),
    ". Gemini error: ", ErrText(fallbackError)>>

NoResult == [text |-> "", usage |-> ZeroUsage, model |-> <<>>, provider |-> "none"]

IdleFrame ==
  [pc |-> "idle", modelName |-> "none", calls |-> <<>>, error |-> NoError,
   fallbackError |-> NoError, rawUsage |-> NoUsage, result |-> NoResult, raised |-> <<>>]

\* What one generateText call ends in: a result or a thrown Error.
Outcomes(usages, messages) ==
  {[ok |-> TRUE, text |-> t, usage |-> u, message |-> ""] : t \in Texts, u \in usages}
    \cup {[ok |-> FALSE, text |-> "", usage |-> NoUsage, message |-> m] : m \in messages}

\* The call is entered: messages are built, the first try block is next.
GenerateCall(c, modelName) ==
  /\ gw[c].pc = "idle"
  /\ gw' = [gw EXCEPT ![c] = [IdleFrame EXCEPT !.pc = "ollama", !.modelName = modelName]]
  /\ UNCHANGED apiKey

OllamaResult(modelName, out) ==
  [text |-> out.text, usage |-> normalizeUsage(out.usage),
   model |-> Latest(MODELS[modelName]), provider |-> "ollama"]

\* As TryOllama, with the return of the try block lost: control falls into the
\* fallback after a successful primary call too.
TryOllamaFallThrough(c, out) ==
  /\ gw[c].pc = "ollama"
  /\ LET f == gw[c]
         called == Append(f.calls, [provider |-> "ollama",
                                    model |-> Latest(MODELS[f.modelName])])
     IN gw' = [gw EXCEPT ![c] =
          IF out.ok
            THEN [f EXCEPT !.pc = "gemini", !.calls = called, !.rawUsage = out.usage,
                           !.result = OllamaResult(f.modelName, out)]
            ELSE [f EXCEPT !.pc = "catch", !.calls = called,
                           !.error = [message |-> out.message]]]
  /\ UNCHANGED apiKey

\* try { generateText(ollama model) ... return } catch (error) { ... }
TryOllama(c, out) ==
  /\ gw[c].pc = "ollama"
  /\ LET f == gw[c]
         called == Append(f.calls, [provider |-> "ollama",
                                    model |-> Latest(MODELS[f.modelName])])
     IN gw' = [gw EXCEPT ![c] =
          IF out.ok
            THEN [f EXCEPT !.pc = "returned", !.calls = called, !.rawUsage = out.usage,
                           !.result = OllamaResult(f.modelName, out)]
            ELSE [f EXCEPT !.pc = "catch", !.calls = called,
                           !.error = [message |-> out.message]]]
  /\ UNCHANGED apiKey

\* if (!process.env.GOOGLE_GENERATIVE_AI_API_KEY) throw new Error(...)
CheckFallbackKey(c) ==
  /\ gw[c].pc = "catch"
  /\ gw' = [gw EXCEPT ![c] =
       IF ~apiKey
         THEN [@ EXCEPT !.pc = "thrown", !.raised = Append(@, NoKeyMessage(gw[c].error))]
         ELSE [@ EXCEPT !.pc = "gemini"]]
  /\ UNCHANGED apiKey

GeminiResultAsPrimary(out) ==
  [text |-> out.text, usage |-> normalizeUsage(out.usage),
   model |-> Latest(MODELS.synthesis), provider |-> "ollama"]

GeminiResult(out) ==
  [text |-> out.text, usage |-> normalizeUsage(out.usage),
   model |-> <<MODELS.fallback>>, provider |-> "google"]

\* getFallbackModel() throws when the key is missing; it runs inside the try.
FallbackModelError == [message |-> "GOOGLE_GENERATIVE_AI_API_KEY is required for fallback model"]

\* As TryGemini, but a failed fallback call is tried once more.
TryGeminiRetry(c, out) ==
  /\ gw[c].pc = "gemini"
  /\ LET f == gw[c]
         called == Append(f.calls, [provider |-> "google",
                                    model |-> <<"models/", MODELS.fallback>>])
     IN gw' = [gw EXCEPT ![c] =
          IF out.ok
            THEN [f EXCEPT !.pc = "returned", !.calls = called, !.rawUsage = out.usage,
                           !.result = GeminiResult(out)]
          ELSE IF Len(f.calls) < 2
            THEN [f EXCEPT !.calls = called]
            ELSE [f EXCEPT !.pc = "thrown", !.calls = called,
                           !.fallbackError = [message |-> out.message],
                           !.raised = Append(@, BothFailedMessage(f.error,
                                                    [message |-> out.message]))]]
  /\ UNCHANGED apiKey

\* try { getFallbackModel(); generateText(...) ... return } catch (fallbackError) { throw }
TryGemini(c, out) ==
  /\ gw[c].pc = "gemini"
  /\ LET f == gw[c]
         called == Append(f.calls, [provider |-> "google",
                                    model |-> <<"models/", MODELS.fallback>>])
     IN gw' = [gw EXCEPT ![c] =
          IF ~apiKey
            THEN [f EXCEPT !.pc = "thrown", !.fallbackError = FallbackModelError,
                           !.raised = Append(@, BothFailedMessage(f.error, FallbackModelError))]
          ELSE IF out.ok
            THEN [f EXCEPT !.pc = "returned", !.calls = called, !.rawUsage = out.usage,
                           !.result = GeminiResult(out)]
            ELSE [f EXCEPT !.pc = "thrown", !.calls = called,
                           !.fallbackError = [message |-> out.message],
                           !.raised = Append(@, BothFailedMessage(f.error,
                                                    [message |-> out.message]))]]
  /\ UNCHANGED apiKey

\* ---------------------------------------------------------- option values
\* An optional value: {} when missing (undefined / null), {v} when present.
None == {}
Some(v) == {v}
Get(o) == CHOOSE v \in o : TRUE

\* o ?? d
OrElse(o, d) == IF o = None THEN d ELSE Get(o)

Opt(S) == {None} \cup {Some(v) : v \in S}

\* ------------------------------------------------- research_sessions table
Users == {"u1", "u2"}

AgentNames == {"web", "academic", "github"}

AllAgents == <<"web", "academic", "github">>

SessionStatus ==
  {"pending", "decomposing", "searching", "steering_wait", "synthesizing",
   "completed", "failed"}

VARIABLES
  researchSessions,  \* the research_sessions table: id -> row
  requests,          \* per session, the body of the start request that made it
  response           \* the HTTP response of the last route handler that ran

apiVars == <<researchSessions, requests, response>>

VARIABLES
  request            \* the last HTTP request sent to the application

\* ------------------------------------------------------ startResearchSchema
QueryMin == 10
QueryMax == 1000
MaxSourcesMin == 1
MaxSourcesMax == 100
DefaultMaxSources == 30

\* A JSON number: its integer part, and whether it has a fraction.
Number(n) == [whole |-> n, frac |-> FALSE]

\* z.object({query: z.string().min(10).max(1000), options: z.object({
\*   enableSteering: z.boolean().optional(),
\*   maxSources: z.number().int().min(1).max(100).optional(),
\*   searchAgents: z.array(z.enum([...])).optional() }).optional() })
\* As ValidOptions, with maxSources: z.number().min(1).max(100), no .int()
ValidOptionsNoInt(o) ==
  /\ o.maxSources # None =>
       /\ Get(o.maxSources).whole >= MaxSourcesMin
       /\ Get(o.maxSources).whole <= MaxSourcesMax
  /\ o.searchAgents # None =>
       \A i \in 1 .. Len(Get(o.searchAgents)) : Get(o.searchAgents)[i] \in AgentNames

ValidOptions(o) ==
  /\ o.maxSources # None =>
       /\ ~Get(o.maxSources).frac
       /\ Get(o.maxSources).whole >= MaxSourcesMin
       /\ Get(o.maxSources).whole <= MaxSourcesMax
  /\ o.searchAgents # None =>
       \A i \in 1 .. Len(Get(o.searchAgents)) : Get(o.searchAgents)[i] \in AgentNames

startResearchSchema(body) ==
  /\ body.query # None
  /\ Get(body.query) >= QueryMin
  /\ Get(body.query) <= QueryMax
  /\ body.options # None => ValidOptions(Get(body.options))

\* ---------------------------------------------------- API error responses
ErrorResponse(statusCode, message) ==
  [status |-> statusCode, body |-> [error |-> [message |-> message]]]

BAD_REQUEST(message) == ErrorResponse(400, message)
UNAUTHORIZED == ErrorResponse(401, "Unauthorized")
NOT_FOUND(message) == ErrorResponse(404, message)
INTERNAL_SERVER_ERROR(message) == ErrorResponse(500, message)

NoResponse == [status |-> 0, body |-> [error |-> [message |-> ""]]]

\* ------------------------------------------------ POST /api/research/start
\* options?.enableSteering || true
EnableSteeringOfOr(options) == TRUE

\* options?.enableSteering ?? true, with options itself optional
EnableSteeringOf(options) ==
  IF options = None THEN TRUE ELSE OrElse(Get(options).enableSteering, TRUE)

MaxSourcesOf(options) ==
  IF options = None
    THEN DefaultMaxSources
    ELSE OrElse(Get(options).maxSources, Number(DefaultMaxSources)).whole

\* options?.searchAgents ?? ["web"]
SearchAgentsOfWebOnly(options) ==
  IF options = None THEN <<"web">> ELSE OrElse(Get(options).searchAgents, <<"web">>)

SearchAgentsOf(options) ==
  IF options = None THEN AllAgents ELSE OrElse(Get(options).searchAgents, AllAgents)

\* The metadata.error the status route reads; the start route leaves it out.
NoErrorInfo == None

NewSessionStatus == "pending"

NewSession(userId, body) ==
  [userId |-> userId,
   query |-> Get(body.query),
   status |-> NewSessionStatus,
   finalReport |-> None,
   sourcesFound |-> 0,
   tokensUsed |-> 0,
   costUSD |-> Some("0"),
   metadata |->
     [options |->
        [enableSteering |-> EnableSteeringOf(body.options),
         maxSources |-> MaxSourcesOf(body.options),
         searchAgents |-> SearchAgentsOf(body.options)],
      error |-> NoErrorInfo]]

Created(id, row) ==
  [status |-> 201, body |-> [sessionId |-> id, status |-> row.status]]

\* The handler: authenticate, parse, validate, insert, answer. user is the
\* authenticated user ({} when there is none), json whether the body parses,
\* dbUp whether the insert goes through, id the UUID randomUUID() draws.
POST(user, json, body, dbUp, id) ==
  IF user = None
    THEN /\ response' = UNAUTHORIZED
         /\ UNCHANGED <<researchSessions, requests>>
  ELSE IF ~json
    THEN /\ response' = INTERNAL_SERVER_ERROR("Failed to create research session")
         /\ UNCHANGED <<researchSessions, requests>>
  ELSE IF ~startResearchSchema(body)
    THEN /\ response' = BAD_REQUEST("Invalid request")
         /\ UNCHANGED <<researchSessions, requests>>
  ELSE IF ~dbUp
    THEN /\ response' = INTERNAL_SERVER_ERROR("Failed to create research session")
         /\ UNCHANGED <<researchSessions, requests>>
  ELSE /\ id \notin DOMAIN researchSessions
       /\ researchSessions' = researchSessions @@ (id :> NewSession(Get(user), body))
       /\ requests' = requests @@ (id :> body)
       /\ response' = Created(id, NewSession(Get(user), body))

\* ------------------------------------------- GET /api/research/[id]/status
progressMap ==
  [pending |-> 0, decomposing |-> 20, searching |-> 50, steering_wait |-> 60,
   synthesizing |-> 80, completed |-> 100, failed |-> 0]

getCurrentStepMessage ==
  [pending |-> "Initializing...",
   decomposing |-> "Decomposing query into sub-queries...",
   searching |-> "Searching for sources...",
   steering_wait |-> "Waiting for steering input...",
   synthesizing |-> "Synthesizing research report...",
   completed |-> "Research completed",
   failed |-> "Research failed"]

WorkflowSeconds == 90

Max(a, b) == IF a >= b THEN a ELSE b

\* metadata?.error?.step, read under a key the workflow does not write
FailedStepOfWrongKey(metadata) == "unknown"

\* metadata?.error?.step ?? "unknown"
FailedStepOf(metadata) ==
  IF metadata.error = None THEN "unknown" ELSE Get(metadata.error).step

\* metadata?.error?.message ?? "Unknown error occurred"
FailedMessageOf(metadata) ==
  IF metadata.error = None THEN <<"Unknown error occurred">> ELSE Get(metadata.error).message

\* As EstimatedRemaining, without the look at the status.
EstimatedRemainingAlways(status, elapsedSeconds) ==
  Some(Max(0, WorkflowSeconds - elapsedSeconds))

\* estimatedRemainingSeconds: undefined once the session is over.
EstimatedRemaining(status, elapsedSeconds) ==
  IF status \in {"completed", "failed"}
    THEN None
    ELSE Some(Max(0, WorkflowSeconds - elapsedSeconds))

\* The JSON body built for a session row; a key left out is None.
StatusBody(id, session, elapsedSeconds) ==
  [sessionId |-> id,
   status |-> session.status,
   progress |-> progressMap[session.status],
   currentStep |-> getCurrentStepMessage[session.status],
   sourcesFound |-> session.sourcesFound,
   elapsedSeconds |-> elapsedSeconds,
   estimatedRemainingSeconds |-> EstimatedRemaining(session.status, elapsedSeconds),
   steeringPrompt |->
     IF session.status = "steering_wait"
       THEN Some([message |-> "Query decomposed. You can now steer the research direction.",
                  suggestedCommands |->
                    <<"continue", "add_source", "exclude_topic", "change_direction">>])
       ELSE None,
   finalReport |-> IF session.status = "completed" THEN session.finalReport ELSE None,
   tokensUsed |-> IF session.status = "completed" THEN Some(session.tokensUsed) ELSE None,
   costUSD |-> IF session.status = "completed" THEN session.costUSD ELSE None,
   error |->
     IF session.status = "failed"
       THEN Some([message |-> FailedMessageOf(session.metadata),
                  failedStep |-> FailedStepOf(session.metadata),
                  retryable |-> TRUE])
       ELSE None]

\* As GETStatus, but a poll after the assumed workflow time marks the session
\* it finds as failed.
GETStatusExpiring(user, id, elapsedSeconds, dbUp) ==
  LET found == user # None /\ dbUp /\ id \in DOMAIN researchSessions
               /\ researchSessions[id].userId = Get(user)
  IN /\ response' =
          IF user = None
            THEN UNAUTHORIZED
          ELSE IF ~dbUp
            THEN INTERNAL_SERVER_ERROR("Failed to fetch session status")
          ELSE IF ~found
            THEN NOT_FOUND("Research session not found")
          ELSE [status |-> 200, body |-> StatusBody(id, researchSessions[id], elapsedSeconds)]
     /\ researchSessions' =
          IF found /\ elapsedSeconds > WorkflowSeconds
            THEN [researchSessions EXCEPT ![id].status = "failed"]
            ELSE researchSessions
     /\ UNCHANGED requests

\* The handler of the status route: authenticate, look the session up among
\* the user's own, build the body.
GETStatus(user, id, elapsedSeconds, dbUp) ==
  /\ response' =
       IF user = None
         THEN UNAUTHORIZED
       ELSE IF ~dbUp
         THEN INTERNAL_SERVER_ERROR("Failed to fetch session status")
       ELSE IF id \notin DOMAIN researchSessions \/ researchSessions[id].userId # Get(user)
         THEN NOT_FOUND("Research session not found")
       ELSE [status |-> 200, body |-> StatusBody(id, researchSessions[id], elapsedSeconds)]
  /\ UNCHANGED <<researchSessions, requests>>

\* ------------------------------------------------ GET /api/research/history
\* A value as JavaScript has it: undefined, null, or a string with its text.
Undefined == [type |-> "undefined", text |-> ""]
Null == [type |-> "null", text |-> ""]
Text(t) == [type |-> "string", text |-> t]

\* A JavaScript number: its integer part, whether it has a fraction, and
\* whether it is NaN.
Num(n) == [whole |-> n, frac |-> FALSE, nan |-> FALSE]
NaN == [whole |-> 0, frac |-> FALSE, nan |-> TRUE]

\* Number(value), as z.coerce.number() applies it: null and the empty string
\* give 0, undefined and text that is no number give NaN.
ToNumber(v) ==
  IF v.type = "undefined" THEN NaN
  ELSE IF v.type = "null" THEN Num(0)
  ELSE CASE v.text = "" -> Num(0)
         [] v.text = "-1" -> Num(0 - 1)
         [] v.text = "0" -> Num(0)
         [] v.text = "1" -> Num(1)
         [] v.text = "1.5" -> [whole |-> 1, frac |-> TRUE, nan |-> FALSE]
         [] v.text = "2" -> Num(2)
         [] v.text = "5" -> Num(5)
         [] v.text = "20" -> Num(20)
         [] v.text = "100" -> Num(100)
         [] v.text = "101" -> Num(101)
         [] OTHER -> NaN

LimitMin == 1
LimitMax == 100
DefaultLimit == 20
OffsetMin == 0
DefaultOffset == 0
DefaultStatus == "all"

StatusFilters == {"completed", "failed", "all"}

\* As WithDefault, the default standing in for null as well as for undefined.
WithDefaultNullish(v, default, parsed) ==
  IF v.type \in {"undefined", "null"} THEN Some(default) ELSE parsed

\* schema.optional().default(d): the default stands in for undefined, and for
\* nothing else; any other value goes to the schema. parsed is what the schema
\* makes of the value, None when it does not validate.
WithDefault(v, default, parsed) ==
  IF v.type = "undefined" THEN Some(default) ELSE parsed

\* z.coerce.number().int().min(1).max(100)
LimitSchema(v) ==
  LET n == ToNumber(v)
  IN IF n.nan \/ n.frac \/ n.whole < LimitMin \/ n.whole > LimitMax
       THEN None ELSE Some(n.whole)

\* z.coerce.number().int().min(0)
OffsetSchema(v) ==
  LET n == ToNumber(v)
  IN IF n.nan \/ n.frac \/ n.whole < OffsetMin THEN None ELSE Some(n.whole)

\* z.enum(["completed", "failed", "all"])
StatusSchema(v) ==
  IF v.type = "string" /\ v.text \in StatusFilters THEN Some(v.text) ELSE None

\* historyQuerySchema.safeParse(queryParams): each field None when invalid.
historyQuerySchema(queryParams) ==
  [limit |-> WithDefault(queryParams.limit, DefaultLimit, LimitSchema(queryParams.limit)),
   offset |-> WithDefault(queryParams.offset, DefaultOffset, OffsetSchema(queryParams.offset)),
   status |-> WithDefault(queryParams.status, DefaultStatus, StatusSchema(queryParams.status))]

Success(result) == result.limit # None /\ result.offset # None /\ result.status # None

\* The query string of a request: per parameter, its text or None when the
\* parameter is not there.
Search(limit, offset, status) == [limit |-> limit, offset |-> offset, status |-> status]

\* searchParams.get(name): the text, or null when the parameter is missing.
searchParamsGet(search, name) ==
  IF search[name] = None THEN Null ELSE Text(Get(search[name]))

\* The orders a set of rows can come in.
Orderings(S) ==
  {seq \in [1 .. Cardinality(S) -> S] : \A i, j \in 1 .. Cardinality(S) : seq[i] = seq[j] => i = j}

Min(a, b) == IF a <= b THEN a ELSE b

\* .limit(limit).offset(offset)
Page(rows, limit, offset) == SubSeq(rows, offset + 1, Min(offset + limit, Len(rows)))

\* One entry of the sessions array.
SessionSummary(id, session) ==
  [id |-> id, query |-> session.query, status |-> session.status,
   sourcesFound |-> session.sourcesFound, costUSD |-> session.costUSD]

\* As Conditions, without eq(researchSessions.userId, userId).
ConditionsAnyUser(userId, status, id) ==
  status # "all" => researchSessions[id].status = status

\* and(...conditions): the row is the user's, and has the status asked for
\* unless that is "all".
Conditions(userId, status, id) ==
  /\ researchSessions[id].userId = userId
  /\ status # "all" => researchSessions[id].status = status

\* As HasMore, comparing the offset alone with the total.
HasMoreByOffset(offset, returned, total) == offset < total

\* offset + sessions.length < total
HasMore(offset, returned, total) == offset + returned < total

\* The body of the history response. byStartedAt is the table in descending
\* order of started_at, a column the rows of the model do not carry.
HistoryBody(userId, limit, offset, status, byStartedAt) ==
  LET Matches(id) == Conditions(userId, status, id)
      rows == SelectSeq(byStartedAt, Matches)
      sessions == Page(rows, limit, offset)
      total == Len(rows)
  IN [sessions |-> [i \in 1 .. Len(sessions) |->
                      SessionSummary(sessions[i], researchSessions[sessions[i]])],
      total |-> total,
      hasMore |-> HasMore(offset, Len(sessions), total)]

\* The handler of the history route: authenticate, parse and validate the
\* query parameters, select the page, count, answer.
GETHistory(user, search, dbUp, byStartedAt) ==
  /\ response' =
       LET queryParams == [limit |-> searchParamsGet(search, "limit"),
                           offset |-> searchParamsGet(search, "offset"),
                           status |-> searchParamsGet(search, "status")]
           result == historyQuerySchema(queryParams)
       IN IF user = None
            THEN UNAUTHORIZED
          ELSE IF ~Success(result)
            THEN BAD_REQUEST("Invalid query parameters")
          ELSE IF ~dbUp
            THEN INTERNAL_SERVER_ERROR("Failed to fetch research history")
          ELSE [status |-> 200,
                body |-> HistoryBody(Get(user), Get(result.limit), Get(result.offset),
                                     Get(result.status), byStartedAt)]
  /\ UNCHANGED <<researchSessions, requests>>

\* ------------------------------------------------------------------ proxy
\* A path, in pieces: "/api/research/start" is <<"/api", "/research", "/start">>.
StartPath == <<"/api", "/research", "/start">>
StatusPath == <<"/api", "/research", "/[id]", "/status">>
LoginPath == <<"/login">>
DashboardPath == <<"/dashboard">>

\* As startsWith, matching the whole pathname only.
startsWithWhole(pathname, prefix) == pathname = prefix

\* pathname.startsWith(prefix)
startsWith(pathname, prefix) ==
  /\ Len(prefix) <= Len(pathname)
  /\ \A i \in 1 .. Len(prefix) : pathname[i] = prefix[i]

PassThrough == [kind |-> "next", location |-> <<>>, redirect |-> <<>>]

RedirectTo(location, redirect) ==
  [kind |-> "redirect", location |-> location, redirect |-> redirect]

\* As proxy, with the test of the auth pages turned round: a visitor who is
\* not logged in is sent from /login to the dashboard.
proxyLoginInverted(user, pathname) ==
  IF startsWith(pathname, LoginPath) \/ startsWith(pathname, <<"/signup">>)
    THEN IF user = None THEN RedirectTo(DashboardPath, <<>>) ELSE PassThrough
  ELSE IF (startsWith(pathname, DashboardPath) \/ startsWith(pathname, <<"/api", "/research">>))
          /\ user = None
    THEN RedirectTo(LoginPath, pathname)
  ELSE PassThrough

\* proxy(request): user is what supabase.auth.getUser() gives for the cookies.
proxy(user, pathname) ==
  IF startsWith(pathname, LoginPath) \/ startsWith(pathname, <<"/signup">>)
    THEN IF user # None THEN RedirectTo(DashboardPath, <<>>) ELSE PassThrough
  ELSE IF (startsWith(pathname, DashboardPath) \/ startsWith(pathname, <<"/api", "/research">>))
          /\ user = None
    THEN RedirectTo(LoginPath, pathname)
  ELSE PassThrough

\* The response NextResponse.redirect(url) makes.
RedirectResponse(to) ==
  [status |-> 307, body |-> [location |-> to.location, redirect |-> to.redirect]]

\* ----------------------------------------------------------- HTTP requests
NoBody == [query |-> None, options |-> None]

NoRequest ==
  [route |-> "none", user |-> None, json |-> TRUE, body |-> NoBody, viaProxy |-> FALSE,
   id |-> 0]

\* ------------------------------------------------------ workflow: bounds
\* Calls of run made for one session.
MaxRunCalls == 2
\* Steering commands submitted for one session.
MaxCommands == 2
\* Clock ticks of the steering wait before its timeout fires.
WaitTicks == 1
\* Sources one search agent returns.
MaxFound == 1

\* ------------------------------------------------------- workflow: state
VARIABLES
  runs,             \* per session: run calls made, rejected, executions active
  statusLog,        \* per session: the statuses its row has held, in order
  trajectorySteps,  \* per session: the trajectory_steps rows, in write order
  inbox,            \* per session: the steering inbox, commands not yet received
  arrivals,         \* per session: every command submitted, in arrival order
  steeringEvents,   \* per session: the steering_events rows, in write order
  steering,         \* per session: the steering wait and what it applied
  agents            \* per session: the search agents of the fan-out

orchVars ==
  <<runs, statusLog, trajectorySteps, inbox, arrivals, steeringEvents, steering, agents>>

\* --------------------------------------------------- event feed: state
\* Events published for one session.
MaxEvents == 2

Subscribers == {"c1", "c2"}

VARIABLES
  published,    \* per session: the number of events published so far
  connections   \* per subscriber: its connection to the feed of a session

feedVars == <<published, connections>>

vars == <<apiKey, gw, researchSessions, requests, response, request, orchVars, feedVars>>

SteeringCommand == {"add_source", "exclude_topic", "change_direction", "force_stop", "continue"}

TerminalCommands == {"force_stop", "continue"}

TerminalStatus == {"completed", "failed"}

\* The states after the steering checkpoint.
PassedSteering == {"searching", "synthesizing", "completed", "failed"}

SearchStep == [web |-> "search_web", academic |-> "search_academic", github |-> "search_github"]

SearchAgentType ==
  [web |-> "web_search", academic |-> "academic_search", github |-> "github_search"]

Range(seq) == {seq[i] : i \in 1 .. Len(seq)}

Last(seq) == seq[Len(seq)]

NoRun == [calls |-> 0, rejected |-> 0, executions |-> 0]

NoSteering == [waitLeft |-> 0, endedAt |-> 0, outcome |-> "none", directives |-> <<>>]

\* One trajectory_steps row: number, name, agent, the model used and its
\* tokens (when a model ran), status, error message, outcome and the number of
\* sources a search returned.
Step(n, name, agentType, status) ==
  [stepNumber |-> n, stepName |-> name, agentType |-> agentType,
   llmModel |-> <<>>, llmProvider |-> "none", tokensPrompt |-> 0, tokensCompletion |-> 0,
   status |-> status, errorMessage |-> <<>>, output |-> "none", resultsCount |-> 0]

\* The step of a model gateway call that returned.
ModelStep(n, name, result) ==
  [Step(n, name, "master", "success") EXCEPT
     !.llmModel = result.model, !.llmProvider = result.provider,
     !.tokensPrompt = result.usage.promptTokens,
     !.tokensCompletion = result.usage.completionTokens]

FailedStep(n, name, agentType, message) ==
  [Step(n, name, agentType, "failed") EXCEPT !.errorMessage = message]

\* As NextStepNumber, counting from the steps read before the latest write.
NextStepNumberStale(steps) == Max(1, Len(steps))

NextStepNumber(steps) == Len(steps) + 1

\* One steering_events row.
SteeringEvent(command, applied, stepNumber) ==
  [command |-> command, appliedSuccessfully |-> applied, workflowStepApplied |-> stepNumber]

\* A command no step of the workflow saw.
NoStep == 0

\* As Discarded, but the commands still queued are dropped without a record.
DiscardedSilently(events, queue) == events

\* The commands still queued are recorded as failed to apply.
Discarded(events, queue) ==
  events \o [i \in 1 .. Len(queue) |-> SteeringEvent(queue[i], FALSE, NoStep)]

\* The session row moved to failed, with the causing step and message.
FailedRow(row, stepName, message) ==
  [row EXCEPT !.status = "failed",
              !.metadata.error = Some([message |-> message, step |-> stepName])]

\* The fan-out: the agents the session asks for start running.
FanOut(row) ==
  [a \in AgentNames |->
     IF a \in Range(row.metadata.options.searchAgents) THEN "running" ELSE "off"]

NoAgents == [a \in AgentNames |-> "off"]

\* The writes of one workflow step, made together: the session row, its
\* trajectory, the steering events and inbox, the wait and the agents.
Commit(s, row, steps, events, queue, wait, fan, run) ==
  /\ researchSessions' = [researchSessions EXCEPT ![s] = row]
  /\ statusLog' =
       [statusLog EXCEPT ![s] =
          IF row.status = researchSessions[s].status THEN @ ELSE Append(@, row.status)]
  /\ trajectorySteps' = [trajectorySteps EXCEPT ![s] = steps]
  /\ steeringEvents' = [steeringEvents EXCEPT ![s] = events]
  /\ inbox' = [inbox EXCEPT ![s] = queue]
  /\ steering' = [steering EXCEPT ![s] = wait]
  /\ agents' = [agents EXCEPT ![s] = fan]
  /\ runs' = [runs EXCEPT ![s] = run]

Exists(s) == s \in DOMAIN researchSessions

Executing(s) == Exists(s) /\ runs[s].executions > 0

\* The execution of session s ends in failed at stepName.
Fail(s, stepName, agentType, message) ==
  LET n == NextStepNumber(trajectorySteps[s])
  IN Commit(s, FailedRow(researchSessions[s], stepName, message),
            Append(trajectorySteps[s], FailedStep(n, stepName, agentType, message)),
            Discarded(steeringEvents[s], inbox[s]), <<>>,
            steering[s], NoAgents, [runs[s] EXCEPT !.executions = 0])

\* ------------------------------------------------------------ run(session)
\* As RunGuard, without the look at the status.
RunGuardAlways(status) == TRUE

\* run starts an execution only for a session in pending.
RunGuard(status) == status = "pending"

\* run(sessionId, ...): rejected unless the session is pending; otherwise the
\* execution starts and the row moves to decomposing, or the start itself
\* meets an unrecoverable error and the row moves to failed.
Run(s, ok) ==
  /\ Exists(s)
  /\ runs[s].calls < MaxRunCalls
  /\ IF ~RunGuard(researchSessions[s].status)
       THEN /\ runs' = [runs EXCEPT ![s] = [@ EXCEPT !.calls = @ + 1, !.rejected = @ + 1]]
            /\ UNCHANGED <<researchSessions, statusLog, trajectorySteps, inbox,
                           steeringEvents, steering, agents>>
     ELSE IF ok
       THEN Commit(s, [researchSessions[s] EXCEPT !.status = "decomposing"],
                   trajectorySteps[s], steeringEvents[s], inbox[s], steering[s], agents[s],
                   [runs[s] EXCEPT !.calls = @ + 1, !.executions = @ + 1])
       ELSE Commit(s, FailedRow(researchSessions[s], "start", <<"Storage unavailable">>),
                   trajectorySteps[s],
                   Discarded(steeringEvents[s], inbox[s]),
                   <<>>, steering[s], agents[s], [runs[s] EXCEPT !.calls = @ + 1])
  /\ UNCHANGED <<feedVars, request, apiKey, gw, requests, response, arrivals>>

\* An unrecoverable internal error (an invariant violation) in a running
\* execution: the session fails at the step it is in.
CurrentStep ==
  [decomposing |-> "decomposition", steering_wait |-> "steering_wait",
   searching |-> "searching", synthesizing |-> "synthesis"]

OrchFatal(s) ==
  /\ Executing(s)
  /\ researchSessions[s].status \in DOMAIN CurrentStep
  /\ Fail(s, CurrentStep[researchSessions[s].status], "master",
          <<"Internal invariant violation">>)
  /\ gw' = [gw EXCEPT ![s] = IdleFrame]
  /\ UNCHANGED <<feedVars, request, apiKey, requests, response, arrivals>>

\* ------------------------------------------------------------ decomposition
StartDecomposition(s) ==
  /\ Executing(s)
  /\ researchSessions[s].status = "decomposing"
  /\ GenerateCall(s, "decomposition")
  /\ UNCHANGED <<apiVars, orchVars, feedVars, request>>

\* The steering wait begins with its full timeout.
OpenWait(wait) == [wait EXCEPT !.waitLeft = WaitTicks]

\* The gateway call of decomposition is over: on a result the step is written
\* and the session moves to steering_wait, or straight to searching when
\* steering is disabled; on the composite error the session fails.
DecompositionDone(s) ==
  /\ Executing(s)
  /\ researchSessions[s].status = "decomposing"
  /\ gw[s].pc \in {"returned", "thrown"}
  /\ LET row == researchSessions[s]
         n == NextStepNumber(trajectorySteps[s])
         steps == Append(trajectorySteps[s], ModelStep(n, "decomposition", gw[s].result))
         used == [row EXCEPT !.tokensUsed = @ + gw[s].result.usage.totalTokens]
     IN IF gw[s].pc = "thrown"
          THEN Fail(s, "decomposition", "master", gw[s].raised[1])
        ELSE IF row.metadata.options.enableSteering
          THEN Commit(s, [used EXCEPT !.status = "steering_wait"], steps,
                      steeringEvents[s], inbox[s], OpenWait(steering[s]), agents[s], runs[s])
          ELSE Commit(s, [used EXCEPT !.status = "searching"], steps,
                      Discarded(steeringEvents[s], inbox[s]), <<>>,
                      steering[s], FanOut(row), runs[s])
  /\ gw' = [gw EXCEPT ![s] = IdleFrame]
  /\ UNCHANGED <<feedVars, request, apiKey, requests, response, arrivals>>

\* ---------------------------------------------------------- steering inbox
\* submit(sessionId, command): queued until the wait receives it; recorded as
\* failed to apply once the session has passed the steering checkpoint.
Submit(s, command) ==
  /\ Exists(s)
  /\ Len(arrivals[s]) < MaxCommands
  /\ arrivals' = [arrivals EXCEPT ![s] = Append(@, command)]
  /\ IF researchSessions[s].status \in PassedSteering
       THEN /\ steeringEvents' =
                 [steeringEvents EXCEPT ![s] =
                    Append(@, SteeringEvent(command, FALSE, NoStep))]
            /\ UNCHANGED inbox
       ELSE /\ inbox' = [inbox EXCEPT ![s] = Append(@, command)]
            /\ UNCHANGED steeringEvents
  /\ UNCHANGED <<feedVars, request, apiKey, gw, apiVars, runs, statusLog, trajectorySteps, steering, agents>>

\* Where the wait leads: force_stop to synthesizing, continue and the timeout
\* to searching.
AfterWaitBackwards(outcome) == "decomposing"

\* As AfterWait, with force_stop treated like continue.
AfterWaitAlwaysSearch(outcome) == "searching"

AfterWait(outcome) == IF outcome = "force_stop" THEN "synthesizing" ELSE "searching"

\* The wait of session s ends with outcome: the steering_wait step is written,
\* what is still queued is discarded and the session moves on.
EndWait(s, outcome, events, queue, directives) ==
  LET row == researchSessions[s]
      n == NextStepNumber(trajectorySteps[s])
      step == [Step(n, "steering_wait", "master", "success") EXCEPT !.output = outcome]
      next == AfterWait(outcome)
  IN Commit(s, [row EXCEPT !.status = next], Append(trajectorySteps[s], step),
            Discarded(events, queue), <<>>,
            [steering[s] EXCEPT !.outcome = outcome, !.endedAt = steering[s].waitLeft,
                                !.waitLeft = 0, !.directives = directives],
            IF next = "searching" THEN FanOut(row) ELSE agents[s], runs[s])

\* As Receive, but a terminal command does not end the wait: it is applied
\* like any other and the wait goes on to the next one.
ReceiveNoTerminal(s) ==
  /\ Executing(s)
  /\ researchSessions[s].status = "steering_wait"
  /\ inbox[s] # <<>>
  /\ LET command == Head(inbox[s])
         event == SteeringEvent(command, TRUE, Len(trajectorySteps[s]))
     IN Commit(s, researchSessions[s], trajectorySteps[s],
               Append(steeringEvents[s], event), Tail(inbox[s]),
               [steering[s] EXCEPT !.directives = Append(@, command)], agents[s], runs[s])
  /\ UNCHANGED <<feedVars, request, apiKey, gw, requests, response, arrivals>>

\* The wait receives the next command of the inbox: a non-terminal command is
\* applied and the wait goes on; a terminal command ends the wait.
Receive(s) ==
  /\ Executing(s)
  /\ researchSessions[s].status = "steering_wait"
  /\ inbox[s] # <<>>
  /\ LET command == Head(inbox[s])
         event == SteeringEvent(command, TRUE, Len(trajectorySteps[s]))
     IN IF command \in TerminalCommands
          THEN EndWait(s, command, Append(steeringEvents[s], event), Tail(inbox[s]),
                       steering[s].directives)
          ELSE Commit(s, researchSessions[s], trajectorySteps[s],
                      Append(steeringEvents[s], event), Tail(inbox[s]),
                      [steering[s] EXCEPT !.directives = Append(@, command)],
                      agents[s], runs[s])
  /\ UNCHANGED <<feedVars, request, apiKey, gw, requests, response, arrivals>>

\* Time passes in the wait.
WaitTick(s) ==
  /\ Executing(s)
  /\ researchSessions[s].status = "steering_wait"
  /\ steering[s].waitLeft > 0
  /\ steering' = [steering EXCEPT ![s] = [@ EXCEPT !.waitLeft = @ - 1]]
  /\ UNCHANGED <<feedVars, request, apiKey, gw, apiVars, runs, statusLog, trajectorySteps, inbox, arrivals,
                 steeringEvents, agents>>

\* As WaitTimeout, with a deadline that is never taken to have passed.
WaitTimeoutNever(s) ==
  /\ Executing(s)
  /\ researchSessions[s].status = "steering_wait"
  /\ steering[s].waitLeft < 0
  /\ EndWait(s, "timeout", steeringEvents[s], inbox[s], steering[s].directives)
  /\ UNCHANGED <<feedVars, request, apiKey, gw, requests, response, arrivals>>

\* The deadline of the wait passes before a terminal command is received.
WaitTimeout(s) ==
  /\ Executing(s)
  /\ researchSessions[s].status = "steering_wait"
  /\ steering[s].waitLeft = 0
  /\ EndWait(s, "timeout", steeringEvents[s], inbox[s], steering[s].directives)
  /\ UNCHANGED <<feedVars, request, apiKey, gw, requests, response, arrivals>>

\* ------------------------------------------------------------ search agents
\* As AgentDone, but the failure of an agent is thrown on to the workflow:
\* the session fails at that agent's step and the other agents are dropped.
AgentDoneAborts(s, a, ok, found) ==
  /\ Executing(s)
  /\ researchSessions[s].status = "searching"
  /\ agents[s][a] = "running"
  /\ LET row == researchSessions[s]
         n == NextStepNumber(trajectorySteps[s])
     IN IF ok
          THEN /\ row.sourcesFound + found <= row.metadata.options.maxSources
               /\ Commit(s, [row EXCEPT !.sourcesFound = @ + found],
                         Append(trajectorySteps[s],
                                [Step(n, SearchStep[a], SearchAgentType[a], "success")
                                   EXCEPT !.resultsCount = found]),
                         steeringEvents[s], inbox[s], steering[s],
                         [agents[s] EXCEPT ![a] = "done"], runs[s])
          ELSE /\ found = 0
               /\ Fail(s, SearchStep[a], SearchAgentType[a], <<"Search agent failed">>)
  /\ UNCHANGED <<feedVars, request, apiKey, gw, requests, response, arrivals>>

\* One search agent is done: it found some sources, or it failed for good
\* (its attempts are used up, or its hard timeout passed). Either way its
\* step is written and the other agents go on.
AgentDone(s, a, ok, found) ==
  /\ Executing(s)
  /\ researchSessions[s].status = "searching"
  /\ agents[s][a] = "running"
  /\ LET row == researchSessions[s]
         n == NextStepNumber(trajectorySteps[s])
     IN IF ok
          THEN /\ row.sourcesFound + found <= row.metadata.options.maxSources
               /\ Commit(s, [row EXCEPT !.sourcesFound = @ + found],
                         Append(trajectorySteps[s],
                                [Step(n, SearchStep[a], SearchAgentType[a], "success")
                                   EXCEPT !.resultsCount = found]),
                         steeringEvents[s], inbox[s], steering[s],
                         [agents[s] EXCEPT ![a] = "done"], runs[s])
          ELSE /\ found = 0
               /\ Commit(s, row,
                         Append(trajectorySteps[s],
                                FailedStep(n, SearchStep[a], SearchAgentType[a],
                                           <<"Search agent failed">>)),
                         steeringEvents[s], inbox[s], steering[s],
                         [agents[s] EXCEPT ![a] = "failed"], runs[s])
  /\ UNCHANGED <<feedVars, request, apiKey, gw, requests, response, arrivals>>

\* The join: every agent asked for is done or failed.
SearchJoin(s) ==
  /\ Executing(s)
  /\ researchSessions[s].status = "searching"
  /\ \A a \in AgentNames : agents[s][a] # "running"
  /\ Commit(s, [researchSessions[s] EXCEPT !.status = "synthesizing"], trajectorySteps[s],
            steeringEvents[s], inbox[s], steering[s], agents[s], runs[s])
  /\ UNCHANGED <<feedVars, request, apiKey, gw, requests, response, arrivals>>

\* ---------------------------------------------------------------- synthesis
StartSynthesis(s) ==
  /\ Executing(s)
  /\ researchSessions[s].status = "synthesizing"
  /\ GenerateCall(s, "synthesis")
  /\ UNCHANGED <<apiVars, orchVars, feedVars, request>>

\* The gateway call of synthesis is over: the report is stored and the session
\* completes, or the session fails on the composite error.
SynthesisDone(s) ==
  /\ Executing(s)
  /\ researchSessions[s].status = "synthesizing"
  /\ gw[s].pc \in {"returned", "thrown"}
  /\ LET row == researchSessions[s]
         n == NextStepNumber(trajectorySteps[s])
     IN IF gw[s].pc = "thrown"
          THEN Fail(s, "synthesis", "master", gw[s].raised[1])
          ELSE Commit(s, [row EXCEPT !.status = "completed",
                                     !.finalReport = Some(gw[s].result.text),
                                     !.tokensUsed = @ + gw[s].result.usage.totalTokens],
                      Append(trajectorySteps[s], ModelStep(n, "synthesis", gw[s].result)),
                      steeringEvents[s], inbox[s], steering[s], agents[s],
                      [runs[s] EXCEPT !.executions = 0])
  /\ gw' = [gw EXCEPT ![s] = IdleFrame]
  /\ UNCHANGED <<feedVars, request, apiKey, requests, response, arrivals>>

\* ------------------------------------------------------ event broadcaster
\* A subscriber's connection: the session it listens to, how many events were
\* published when it connected, the events on their way to it and the events
\* it has received, each event named by its place in the session's feed.
NoConnection == [open |-> FALSE, session |-> 0, since |-> 0, queue |-> <<>>, received |-> <<>>]

\* As Connect, but the events published before are replayed to the newcomer.
ConnectReplay(c, s) ==
  /\ ~connections[c].open
  /\ connections' =
       [connections EXCEPT ![c] =
          [open |-> TRUE, session |-> s, since |-> published[s],
           queue |-> [i \in 1 .. published[s] |-> i], received |-> <<>>]]
  /\ UNCHANGED <<published, gwVars, apiVars, orchVars, request>>

\* A subscriber connects to the feed of session s.
Connect(c, s) ==
  /\ ~connections[c].open
  /\ connections' =
       [connections EXCEPT ![c] =
          [open |-> TRUE, session |-> s, since |-> published[s],
           queue |-> <<>>, received |-> <<>>]]
  /\ UNCHANGED <<published, gwVars, apiVars, orchVars, request>>

\* publish(sessionId, eventType, payload): the event goes out to the
\* subscribers connected to the session at that moment.
Publish(s) ==
  /\ published[s] < MaxEvents
  /\ published' = [published EXCEPT ![s] = @ + 1]
  /\ connections' =
       [c \in Subscribers |->
          IF connections[c].open /\ connections[c].session = s
            THEN [connections[c] EXCEPT !.queue = Append(@, published[s] + 1)]
            ELSE connections[c]]
  /\ UNCHANGED <<gwVars, apiVars, orchVars, request>>

\* The next event on its way reaches the subscriber.
Deliver(c) ==
  /\ connections[c].open
  /\ connections[c].queue # <<>>
  /\ connections' =
       [connections EXCEPT ![c] =
          [@ EXCEPT !.received = Append(@, Head(connections[c].queue)),
                    !.queue = Tail(@)]]
  /\ UNCHANGED <<published, gwVars, apiVars, orchVars, request>>

\* The next event on its way is lost; it is not sent again.
Lose(c) ==
  /\ connections[c].open
  /\ connections[c].queue # <<>>
  /\ connections' = [connections EXCEPT ![c] = [@ EXCEPT !.queue = Tail(@)]]
  /\ UNCHANGED <<published, gwVars, apiVars, orchVars, request>>

\* The subscriber's connection ends; what was on its way is gone.
Disconnect(c) ==
  /\ connections[c].open
  /\ connections' = [connections EXCEPT ![c] = NoConnection]
  /\ UNCHANGED <<published, gwVars, apiVars, orchVars, request>>

NextBroadcast ==
  \/ \E c \in Subscribers, s \in SessionIds : Connect(c, s)
  \/ \E s \in SessionIds : Publish(s)
  \/ \E c \in Subscribers : Deliver(c)
  \/ \E c \in Subscribers : Lose(c)
  \/ \E c \in Subscribers : Disconnect(c)

\* ------------------------------------------------------- the specification
Init ==
  /\ apiKey \in BOOLEAN
  /\ gw = [c \in Callers |-> IdleFrame]
  /\ researchSessions = <<>>
  /\ requests = <<>>
  /\ response = NoResponse
  /\ request = NoRequest
  /\ runs = [s \in SessionIds |-> NoRun]
  /\ statusLog = [s \in SessionIds |-> <<>>]
  /\ trajectorySteps = [s \in SessionIds |-> <<>>]
  /\ inbox = [s \in SessionIds |-> <<>>]
  /\ arrivals = [s \in SessionIds |-> <<>>]
  /\ steeringEvents = [s \in SessionIds |-> <<>>]
  /\ steering = [s \in SessionIds |-> NoSteering]
  /\ agents = [s \in SessionIds |-> NoAgents]
  /\ published = [s \in SessionIds |-> 0]
  /\ connections = [c \in Subscribers |-> NoConnection]

\* The start requests the workflow is followed for: steering left out, on or
\* off, and one or two agents.
WorkflowBody(enableSteering, searchAgents) ==
  [query |-> Some(QueryMin),
   options |-> Some([enableSteering |-> enableSteering, maxSources |-> None,
                     searchAgents |-> searchAgents])]

WorkflowBodies ==
  {WorkflowBody(None, Some(<<"web", "academic">>)),
   WorkflowBody(Some(TRUE), Some(<<"github">>)),
   WorkflowBody(Some(FALSE), Some(<<"web">>))}

\* The provider responses the workflow is followed for: a result with the
\* token counts of the AI SDK, or a network failure.
WorkflowUsages ==
  {[f \in UsageFields |-> IF f \in {"inputTokens", "outputTokens"} THEN MaxTok ELSE Absent]}

WorkflowErrors == {"network"}

\* The steering commands the workflow is followed for: two that do not end
\* the wait, and the two that do.
WorkflowCommands == {"add_source", "exclude_topic", "force_stop", "continue"}

StartSession ==
  /\ \E body \in WorkflowBodies, id \in SessionIds : POST(Some("u1"), TRUE, body, TRUE, id)
  /\ statusLog' = [s \in SessionIds |->
                     IF s \in DOMAIN researchSessions' /\ s \notin DOMAIN researchSessions
                       THEN <<researchSessions'[s].status>> ELSE statusLog[s]]
  /\ UNCHANGED <<feedVars, request, apiKey, gw, runs, trajectorySteps, inbox, arrivals, steeringEvents,
                 steering, agents>>

GatewayStep(s) ==
  /\ \/ \E out \in Outcomes(WorkflowUsages, WorkflowErrors) : TryOllama(s, out)
     \/ CheckFallbackKey(s)
     \/ \E out \in Outcomes(WorkflowUsages, WorkflowErrors) : TryGemini(s, out)
  /\ UNCHANGED <<apiVars, orchVars, feedVars, request>>

Next ==
  \/ StartSession
  \/ \E s \in SessionIds, ok \in BOOLEAN : Run(s, ok)
  \/ \E s \in SessionIds : OrchFatal(s)
  \/ \E s \in SessionIds : StartDecomposition(s)
  \/ \E s \in SessionIds : GatewayStep(s)
  \/ \E s \in SessionIds : DecompositionDone(s)
  \/ \E s \in SessionIds, command \in WorkflowCommands : Submit(s, command)
  \/ \E s \in SessionIds : Receive(s)
  \/ \E s \in SessionIds : WaitTick(s)
  \/ \E s \in SessionIds : WaitTimeout(s)
  \/ \E s \in SessionIds, a \in AgentNames, ok \in BOOLEAN, found \in 0 .. MaxFound :
       AgentDone(s, a, ok, found)
  \/ \E s \in SessionIds : SearchJoin(s)
  \/ \E s \in SessionIds : StartSynthesis(s)
  \/ \E s \in SessionIds : SynthesisDone(s)

Spec == Init /\ [][Next]_vars

\* ------------------------------------------- the timer of the steering wait
\* A start request with steering on and one agent, and the commands sent to
\* its session: one that does not end the wait and one that does.
WaitBodies == {WorkflowBody(Some(TRUE), Some(<<"web">>))}

WaitCommands == {"add_source", "continue"}

StartWaitSession ==
  /\ \E body \in WaitBodies, id \in SessionIds : POST(Some("u1"), TRUE, body, TRUE, id)
  /\ statusLog' = [s \in SessionIds |->
                     IF s \in DOMAIN researchSessions' /\ s \notin DOMAIN researchSessions
                       THEN <<researchSessions'[s].status>> ELSE statusLog[s]]
  /\ UNCHANGED <<feedVars, request, apiKey, gw, runs, trajectorySteps, inbox, arrivals,
                 steeringEvents, steering, agents>>

NextWait ==
  \/ StartWaitSession
  \/ \E s \in SessionIds, ok \in BOOLEAN : Run(s, ok)
  \/ \E s \in SessionIds : OrchFatal(s)
  \/ \E s \in SessionIds : StartDecomposition(s)
  \/ \E s \in SessionIds : GatewayStep(s)
  \/ \E s \in SessionIds : DecompositionDone(s)
  \/ \E s \in SessionIds, command \in WaitCommands : Submit(s, command)
  \/ \E s \in SessionIds : Receive(s)
  \/ \E s \in SessionIds : WaitTick(s)
  \/ \E s \in SessionIds : WaitTimeout(s)
  \/ \E s \in SessionIds, a \in AgentNames, ok \in BOOLEAN, found \in 0 .. MaxFound :
       AgentDone(s, a, ok, found)
  \/ \E s \in SessionIds : SearchJoin(s)
  \/ \E s \in SessionIds : StartSynthesis(s)
  \/ \E s \in SessionIds : SynthesisDone(s)

\* The workflow with the timer of the steering wait running: the clock of the
\* wait goes on ticking and its deadline fires once it has passed.
SpecLive ==
  /\ Init
  /\ [][NextWait]_vars
  /\ \A s \in SessionIds : WF_vars(WaitTick(s)) /\ WF_vars(WaitTimeout(s))

\* The event feed on its own.
SpecBroadcast == Init /\ [][NextBroadcast]_vars

\* ------------------------------------------- the fan-out to all three agents
\* A start request that leaves the agents out, so that all three run, with
\* steering off: the workflow goes from decomposition straight to the search.
SearchBodies == {WorkflowBody(Some(FALSE), None)}

StartSearchSession ==
  /\ \E body \in SearchBodies, id \in SessionIds : POST(Some("u1"), TRUE, body, TRUE, id)
  /\ statusLog' = [s \in SessionIds |->
                     IF s \in DOMAIN researchSessions' /\ s \notin DOMAIN researchSessions
                       THEN <<researchSessions'[s].status>> ELSE statusLog[s]]
  /\ UNCHANGED <<feedVars, request, apiKey, gw, runs, trajectorySteps, inbox, arrivals, steeringEvents,
                 steering, agents>>

NextSearch ==
  \/ StartSearchSession
  \/ \E s \in SessionIds, ok \in BOOLEAN : Run(s, ok)
  \/ \E s \in SessionIds : OrchFatal(s)
  \/ \E s \in SessionIds : StartDecomposition(s)
  \/ \E s \in SessionIds : GatewayStep(s)
  \/ \E s \in SessionIds : DecompositionDone(s)
  \/ \E s \in SessionIds, a \in AgentNames, ok \in BOOLEAN, found \in 0 .. MaxFound :
       AgentDone(s, a, ok, found)
  \/ \E s \in SessionIds : SearchJoin(s)
  \/ \E s \in SessionIds : StartSynthesis(s)
  \/ \E s \in SessionIds : SynthesisDone(s)

SpecSearch == Init /\ [][NextSearch]_vars

\* ------------------------------------------------- the routes on their own
\* Sessions the table holds.
MaxSessions == 2

ApiSessionIds == 1 .. MaxSessions

Body(query, options) == [query |-> query, options |-> options]

Options(enableSteering, maxSources, searchAgents) ==
  [enableSteering |-> enableSteering, maxSources |-> maxSources, searchAgents |-> searchAgents]

\* Bodies the schema accepts: no options, empty options, every option given,
\* and an empty list of agents.
ValidBodies ==
  {Body(Some(QueryMin), None),
   Body(Some(QueryMax), Some(Options(None, None, None))),
   Body(Some(QueryMin),
        Some(Options(Some(FALSE), Some(Number(MaxSourcesMin)), Some(<<"web">>)))),
   Body(Some(QueryMin), Some(Options(None, Some(Number(MaxSourcesMax)), Some(<<>>))))}

\* Bodies the schema rejects: the query missing, too short or too long,
\* maxSources below 1, above 100 or not an integer, an unknown agent.
InvalidBodies ==
  {Body(None, None),
   Body(Some(QueryMin - 1), None),
   Body(Some(QueryMax + 1), None),
   Body(Some(QueryMin), Some(Options(None, Some(Number(MaxSourcesMin - 1)), None))),
   Body(Some(QueryMin), Some(Options(None, Some(Number(MaxSourcesMax + 1)), None))),
   Body(Some(QueryMin), Some(Options(None, Some([whole |-> 1, frac |-> TRUE]), None))),
   Body(Some(QueryMin), Some(Options(None, None, Some(<<"web", "news">>))))}

StartReq(user, json, body, viaProxy) ==
  [route |-> "start", user |-> user, json |-> json, body |-> body, viaProxy |-> viaProxy,
   id |-> 0]

\* A body that validates and one that does not.
SampleBodies == {Body(Some(QueryMin), None), Body(Some(QueryMin - 1), None)}

\* The start requests sent: every body by one user and the sample bodies by
\* another; the sample bodies by nobody, through the proxy or straight to the
\* route; a body that is not JSON.
StartRequests ==
  {StartReq(Some("u1"), TRUE, b, TRUE) : b \in ValidBodies \cup InvalidBodies}
    \cup {StartReq(Some("u2"), TRUE, b, TRUE) : b \in SampleBodies}
    \cup {StartReq(None, TRUE, b, v) : b \in SampleBodies, v \in BOOLEAN}
    \cup {StartReq(Some("u1"), FALSE, NoBody, TRUE)}

StatusReq(user, id, viaProxy) ==
  [route |-> "status", user |-> user, json |-> TRUE, body |-> NoBody, viaProxy |-> viaProxy,
   id |-> id]

StatusRequests ==
  {StatusReq(Some(u), id, TRUE) : u \in Users, id \in ApiSessionIds}
    \cup {StatusReq(None, id, v) : id \in ApiSessionIds, v \in BOOLEAN}

ElapsedSeconds == {0, WorkflowSeconds + 1}

\* The ids randomUUID() can draw: those no row has (any, once the table holds
\* as many sessions as are followed, where no further row is added).
FreshIds ==
  IF ApiSessionIds \subseteq DOMAIN researchSessions
    THEN {MaxSessions}
    ELSE ApiSessionIds \ DOMAIN researchSessions

\* A request to POST /api/research/start: where the proxy runs it sees the
\* request first and may answer it; otherwise the route handler answers.
StartRequest ==
  /\ \E r \in StartRequests, dbUp \in BOOLEAN, id \in FreshIds :
       /\ request' = r
       /\ IF r.viaProxy /\ proxy(r.user, StartPath).kind = "redirect"
            THEN /\ response' = RedirectResponse(proxy(r.user, StartPath))
                 /\ UNCHANGED <<researchSessions, requests>>
            ELSE POST(r.user, r.json, r.body, dbUp, id)
  /\ UNCHANGED <<gwVars, orchVars, feedVars>>

\* A request to GET /api/research/[id]/status.
StatusRequest ==
  /\ \E r \in StatusRequests, elapsedSeconds \in ElapsedSeconds, dbUp \in BOOLEAN :
       /\ request' = r
       /\ IF r.viaProxy /\ proxy(r.user, StatusPath).kind = "redirect"
            THEN /\ response' = RedirectResponse(proxy(r.user, StatusPath))
                 /\ UNCHANGED <<researchSessions, requests>>
            ELSE GETStatus(r.user, r.id, elapsedSeconds, dbUp)
  /\ UNCHANGED <<gwVars, orchVars, feedVars>>

HistoryPath == <<"/api", "/research", "/history">>

HistoryReq(user, search, viaProxy) ==
  [route |-> "history", user |-> user, json |-> TRUE, body |-> NoBody,
   viaProxy |-> viaProxy, id |-> 0, search |-> search]

NoSearch == Search(None, None, None)

\* The query strings sent: no parameter; limit alone; limit and status with
\* the offset left out; all three, with pages of one row at offsets up to and
\* past the end, the default page, and each status filter; and parameters
\* that are out of range, fractional, not a number or not a filter.
ApiSearches ==
  {NoSearch,
   Search(Some("1"), None, None),
   Search(Some("20"), None, Some("all")),
   Search(Some("1"), Some("0"), Some("all")),
   Search(Some("1"), Some("1"), Some("all")),
   Search(Some("1"), Some("5"), Some("all")),
   Search(Some("2"), Some("1"), Some("all")),
   Search(Some("20"), Some("0"), Some("all")),
   Search(Some("20"), Some("0"), Some("completed")),
   Search(Some("20"), Some("0"), Some("failed")),
   Search(Some("0"), Some("0"), Some("all")),
   Search(Some("101"), Some("0"), Some("all")),
   Search(Some("1.5"), Some("0"), Some("all")),
   Search(Some("abc"), Some("0"), Some("all")),
   Search(Some("20"), Some("-1"), Some("all")),
   Search(Some("20"), Some("0"), Some("pending"))}

\* The default page and the first page of one row.
SampleSearches ==
  {Search(Some("20"), Some("0"), Some("all")), Search(Some("1"), Some("0"), Some("all"))}

\* The history requests sent: every query string by one user and the sample
\* ones by another; one by nobody, through the proxy or straight to the route.
HistoryRequests ==
  {HistoryReq(Some("u1"), q, TRUE) : q \in ApiSearches}
    \cup {HistoryReq(Some("u2"), q, TRUE) : q \in SampleSearches}
    \cup {HistoryReq(None, NoSearch, v) : v \in BOOLEAN}

\* The request meets the proxy where it runs, and the route handler otherwise.
HistoryAnswer(r, dbUp, byStartedAt) ==
  /\ request' = r
  /\ IF r.viaProxy /\ proxy(r.user, HistoryPath).kind = "redirect"
       THEN /\ response' = RedirectResponse(proxy(r.user, HistoryPath))
            /\ UNCHANGED <<researchSessions, requests>>
       ELSE GETHistory(r.user, r.search, dbUp, byStartedAt)

\* A request to GET /api/research/history.
HistoryRequest ==
  /\ \E r \in HistoryRequests, dbUp \in BOOLEAN,
        byStartedAt \in Orderings(DOMAIN researchSessions) :
       HistoryAnswer(r, dbUp, byStartedAt)
  /\ UNCHANGED <<gwVars, orchVars, feedVars>>

\* A start request with a sample body, by a user or by nobody.
SampleStartRequests ==
  {StartReq(user, TRUE, b, TRUE) : user \in Opt(Users), b \in SampleBodies}
    \cup {StartReq(None, TRUE, b, FALSE) : b \in SampleBodies}

SampleStart ==
  /\ \E r \in SampleStartRequests, dbUp \in BOOLEAN, id \in FreshIds :
       /\ request' = r
       /\ IF r.viaProxy /\ proxy(r.user, StartPath).kind = "redirect"
            THEN /\ response' = RedirectResponse(proxy(r.user, StartPath))
                 /\ UNCHANGED <<researchSessions, requests>>
            ELSE POST(r.user, r.json, r.body, dbUp, id)
  /\ UNCHANGED <<gwVars, orchVars, feedVars>>

NextHistory ==
  \/ SampleStart
  \/ StatusRequest
  \/ HistoryRequest

\* The three routes over sessions that differ in owner only.
SpecHistory == Init /\ [][NextHistory]_vars

InitApi == Init

NextApi ==
  \/ StartRequest
  \/ StatusRequest

SpecApi == InitApi /\ [][NextApi]_vars

\* The routes, with requests that keep coming.
SpecApiLive == InitApi /\ [][NextApi]_vars /\ WF_vars(StartRequest) /\ WF_vars(StatusRequest)

\* ------------------------------------------------- the proxy on its own
\* Redirects a browser follows for one navigation before it gives up.
MaxHops == 2

ImageExtensions == {".svg", ".png", ".jpg", ".jpeg", ".gif", ".webp"}

\* config.matcher: the proxy runs for every path but those that begin with
\* /_next/static, /_next/image or /favicon.ico and those that end in an image
\* extension.
matcher(pathname) ==
  /\ ~startsWith(pathname, <<"/_next", "/static">>)
  /\ ~startsWith(pathname, <<"/_next", "/image">>)
  /\ ~startsWith(pathname, <<"/favicon.ico">>)
  /\ ~(Len(pathname) > 0 /\ pathname[Len(pathname)] \in ImageExtensions)

\* The paths requested: the pages and routes of the application, paths below
\* them, paths whose name only begins like them, and static files.
ProxyPaths ==
  {<<"/">>, <<"/about">>,
   LoginPath, <<"/login", "/reset">>, <<"/login", "-help">>,
   <<"/signup">>, <<"/signup", "/confirm">>,
   DashboardPath, <<"/dashboard", "/settings">>, <<"/dashboard", "-old">>,
   <<"/dashboard", "/logo", ".png">>,
   StartPath, StatusPath, <<"/api", "/research", "/history">>, <<"/api", "/research">>,
   <<"/api", "/research", "ers">>, <<"/api", "/health">>,
   <<"/_next", "/static", "/app.js">>, <<"/favicon.ico">>, <<"/logo", ".svg">>}

\* request.nextUrl.search
Searches == {<<>>, <<"?tab=1">>}

PageReq(user, pathname, search, hops, from) ==
  [route |-> "page", user |-> user, json |-> TRUE, body |-> NoBody, viaProxy |-> TRUE,
   id |-> 0, pathname |-> pathname, search |-> search, hops |-> hops, from |-> from]

\* What the request meets before the page or route: the proxy where the
\* matcher selects the path, nothing otherwise.
Intercept(user, pathname) ==
  IF matcher(pathname) THEN proxy(user, pathname) ELSE PassThrough

\* A browser, logged in or not, asks for a path.
Navigate ==
  /\ \E user \in Opt(Users), pathname \in ProxyPaths, search \in Searches :
       /\ request' = PageReq(user, pathname, search, 0, pathname)
       /\ response' = Intercept(user, pathname)
  /\ UNCHANGED <<researchSessions, requests, gwVars, orchVars, feedVars>>

\* The browser follows the redirect it was given, with the same cookies.
FollowRedirect ==
  /\ request.route = "page"
  /\ response.kind = "redirect"
  /\ request.hops < MaxHops
  /\ LET search == IF response.redirect = <<>> THEN <<>> ELSE <<"?redirect=">> \o response.redirect
     IN /\ request' = PageReq(request.user, response.location, search, request.hops + 1,
                              request.from)
        /\ response' = Intercept(request.user, response.location)
  /\ UNCHANGED <<researchSessions, requests, gwVars, orchVars, feedVars>>

NextProxy ==
  \/ Navigate
  \/ FollowRedirect

SpecProxy == Init /\ [][NextProxy]_vars

\* ------------------------------------------ the read models over a workflow
\* A second session beside the one the workflow is followed for.
OtherSession == 2

\* A start request that is accepted, by the owner of the workflow's session
\* or by another user; its session stays in pending.
StartOther ==
  /\ \E u \in Users : POST(Some(u), TRUE, Body(Some(QueryMin), None), TRUE, OtherSession)
  /\ UNCHANGED <<feedVars, request, gwVars, orchVars>>

\* The owner polls the status of the workflow's session, early and late, and
\* the other user asks for it too.
ReadStatus ==
  /\ \E r \in {StatusReq(Some(u), s, TRUE) : u \in Users, s \in SessionIds},
        elapsedSeconds \in ElapsedSeconds :
       /\ request' = r
       /\ IF r.viaProxy /\ proxy(r.user, StatusPath).kind = "redirect"
            THEN /\ response' = RedirectResponse(proxy(r.user, StatusPath))
                 /\ UNCHANGED <<researchSessions, requests>>
            ELSE GETStatus(r.user, r.id, elapsedSeconds, TRUE)
  /\ UNCHANGED <<gwVars, orchVars, feedVars>>

\* The pages the owner asks for: the default page, each status filter, and
\* pages of one row at the start and past it.
ReadSearches ==
  {Search(Some("20"), Some("0"), Some("all")),
   Search(Some("20"), Some("0"), Some("completed")),
   Search(Some("20"), Some("0"), Some("failed")),
   Search(Some("1"), Some("0"), Some("all")),
   Search(Some("1"), Some("1"), Some("all"))}

ReadHistory ==
  /\ \E q \in ReadSearches, byStartedAt \in Orderings(DOMAIN researchSessions) :
       HistoryAnswer(HistoryReq(Some("u1"), q, TRUE), TRUE, byStartedAt)
  /\ UNCHANGED <<gwVars, orchVars, feedVars>>

NextRead ==
  \/ StartWaitSession
  \/ StartOther
  \/ \E s \in SessionIds, ok \in BOOLEAN : Run(s, ok)
  \/ \E s \in SessionIds : OrchFatal(s)
  \/ \E s \in SessionIds : StartDecomposition(s)
  \/ \E s \in SessionIds : GatewayStep(s)
  \/ \E s \in SessionIds : DecompositionDone(s)
  \/ \E s \in SessionIds : WaitTick(s)
  \/ \E s \in SessionIds : WaitTimeout(s)
  \/ \E s \in SessionIds, a \in AgentNames, ok \in BOOLEAN, found \in 0 .. MaxFound :
       AgentDone(s, a, ok, found)
  \/ \E s \in SessionIds : SearchJoin(s)
  \/ \E s \in SessionIds : StartSynthesis(s)
  \/ \E s \in SessionIds : SynthesisDone(s)
  \/ ReadStatus
  \/ ReadHistory

\* The workflow of one session, with status and history requests in between.
SpecRead == Init /\ [][NextRead]_vars

\* -------------------------------------------- the gateway called on its own
InitGateway == Init

ScriptCall ==
  /\ \E m \in ModelNames : GenerateCall(ScriptCaller, m)
  /\ UNCHANGED <<apiVars, orchVars, feedVars, request>>
ScriptOllama ==
  /\ \E out \in Outcomes(RawUsages, ErrorMessages) : TryOllama(ScriptCaller, out)
  /\ UNCHANGED <<apiVars, orchVars, feedVars, request>>
ScriptCheckKey ==
  /\ CheckFallbackKey(ScriptCaller)
  /\ UNCHANGED <<apiVars, orchVars, feedVars, request>>
ScriptGemini ==
  /\ \E out \in Outcomes(RawUsages, ErrorMessages) : TryGemini(ScriptCaller, out)
  /\ UNCHANGED <<apiVars, orchVars, feedVars, request>>

\* The script prints the result or the error; the activation is over.
ScriptDone ==
  /\ gw[ScriptCaller].pc \in {"returned", "thrown"}
  /\ gw' = [gw EXCEPT ![ScriptCaller] = IdleFrame]
  /\ UNCHANGED <<feedVars, request, apiKey, apiVars, orchVars>>

NextGateway ==
  \/ ScriptCall
  \/ ScriptOllama
  \/ ScriptCheckKey
  \/ ScriptGemini
  \/ ScriptDone

SpecGateway == InitGateway /\ [][NextGateway]_vars

\* ------------------------------------------------------ gateway properties
Providers(calls) == [i \in 1 .. Len(calls) |-> calls[i].provider]

Parts(message) == {message[i] : i \in 1 .. Len(message)}

PrimaryFailed(f) == f.error # NoError

\* C2: in every call the primary provider (ollama) is attempted first; the
\* secondary (google) is attempted only after the primary attempt has failed
\* and only with GOOGLE_GENERATIVE_AI_API_KEY set; after a successful primary
\* attempt the secondary is never invoked.
C2_PrimaryFirstThenFallback ==
  \A c \in Callers :
    LET f == gw[c]
        p == Providers(f.calls)
    IN /\ f.pc \notin {"idle", "ollama"} => Len(p) >= 1
       /\ Len(p) >= 1 => p[1] = "ollama"
       /\ \A i \in 1 .. Len(p) :
            p[i] = "google" =>
              /\ i > 1
              /\ p[i - 1] = "ollama"
              /\ PrimaryFailed(f)
              /\ apiKey
       /\ (f.pc = "returned" /\ ~PrimaryFailed(f)) =>
            /\ p = <<"ollama">>
            /\ f.result.provider = "ollama"

C2_Witness ==
  \E c \in Callers :
    /\ gw[c].pc = "returned"
    /\ Providers(gw[c].calls) = <<"ollama", "google">>
    /\ apiKey

\* C3: when the primary fails and the secondary is unavailable (no key) or
\* fails too, the call returns no result and raises exactly one error whose
\* message names both failures: the primary's error, and the secondary's error
\* or the missing key.
C3_CompositeError ==
  \A c \in Callers :
    LET f == gw[c]
        finished == f.pc \in {"returned", "thrown"}
        secondaryFailed == f.fallbackError # NoError
    IN /\ (finished /\ PrimaryFailed(f) /\ (~apiKey \/ secondaryFailed)) => f.pc = "thrown"
       /\ f.pc = "thrown" =>
            /\ PrimaryFailed(f)
            /\ f.result = NoResult
            /\ Len(f.raised) = 1
            /\ ErrText(f.error) \in Parts(f.raised[1])
            /\ IF apiKey
                 THEN /\ secondaryFailed
                      /\ ErrText(f.fallbackError) \in Parts(f.raised[1])
                      /\ Providers(f.calls) = <<"ollama", "google">>
                 ELSE /\ KeyNotSet \in Parts(f.raised[1])
                      /\ Providers(f.calls) = <<"ollama">>
       /\ f.pc # "thrown" => f.raised = <<>>

C3_Witness ==
  \E c \in Callers :
    /\ gw[c].pc = "thrown"
    /\ apiKey
    /\ gw[c].error.message = "network"
    /\ gw[c].fallbackError.message = "non2xx"

\* C4: one call never invokes the same provider twice, so it makes at most
\* two provider invocations.
C4_NoProviderTwice ==
  \A c \in Callers :
    LET p == Providers(gw[c].calls)
    IN /\ Len(p) <= 2
       /\ \A i, j \in 1 .. Len(p) : p[i] = p[j] => i = j

C4_Witness ==
  \E c \in Callers : gw[c].pc = "thrown" /\ Len(gw[c].calls) = 2

NonZero(usage) ==
  usage.promptTokens > 0 \/ usage.completionTokens > 0 \/ usage.totalTokens > 0

\* The response of the provider reports a token count that is not zero.
ReportsTokens(raw) ==
  \/ raw.totalTokens > 0
  \/ raw.promptTokens > 0
  \/ raw.completionTokens > 0
  \/ raw.promptTokens = Absent /\ raw.inputTokens > 0
  \/ raw.completionTokens = Absent /\ raw.outputTokens > 0

SecondaryAnswered(f) == f.pc = "returned" /\ PrimaryFailed(f)

SecondaryIdentity(f) ==
  /\ f.result.provider = "google"
  /\ f.result.model = <<"gemini-2.5-flash">>
  /\ f.result.model # Latest(MODELS[f.modelName])

\* C6 as claimed: after a failed primary and a successful secondary the result
\* carries the secondary's identity and a token usage that is not zero.
C6_Original ==
  \A c \in Callers :
    SecondaryAnswered(gw[c]) =>
      SecondaryIdentity(gw[c]) /\ NonZero(gw[c].result.usage)

\* C6: after a failed primary and a successful secondary the result carries
\* the secondary's identity (google, gemini-2.5-flash, never the primary's),
\* and its usage is not zero exactly when the secondary's response reports a
\* token count that is not zero; a response without usage gives zero usage.
C6_SecondaryIdentityAndUsage ==
  \A c \in Callers :
    SecondaryAnswered(gw[c]) =>
      /\ SecondaryIdentity(gw[c])
      /\ NonZero(gw[c].result.usage) <=> ReportsTokens(gw[c].rawUsage)
      /\ gw[c].rawUsage = NoUsage => gw[c].result.usage = ZeroUsage

C6_Witness ==
  \E c \in Callers :
    /\ SecondaryAnswered(gw[c])
    /\ gw[c].rawUsage.inputTokens = 1
    /\ gw[c].rawUsage.promptTokens = Absent
    /\ gw[c].result.usage.totalTokens > 0

\* ----------------------------------------------------- workflow properties
Rank ==
  [pending |-> 0, decomposing |-> 1, steering_wait |-> 2, searching |-> 3,
   synthesizing |-> 4, completed |-> 5]

Forward(from, to) ==
  /\ from \notin TerminalStatus
  /\ to = "failed" \/ Rank[to] > Rank[from]

StepNames(s) == [i \in 1 .. Len(trajectorySteps[s]) |-> trajectorySteps[s][i].stepName]

\* C1: the status of a session starts at pending and only moves forward along
\* pending, decomposing, steering_wait, searching, synthesizing, completed, or
\* to failed from a state that is not terminal; after completed or failed it
\* does not change.
C1_StatusMonotonic ==
  \A s \in SessionIds :
    LET log == statusLog[s]
    IN /\ Exists(s) =>
            /\ log # <<>>
            /\ log[1] = "pending"
            /\ Last(log) = researchSessions[s].status
       /\ \A i \in 1 .. Len(log) - 1 : Forward(log[i], log[i + 1])

C1_Witness ==
  \E s \in SessionIds :
    statusLog[s] =
      <<"pending", "decomposing", "steering_wait", "searching", "synthesizing", "completed">>

IsComposite(message) ==
  /\ message # <<>>
  /\ message[1] \in {"Ollama failed and ",
                     "Both Ollama and Gemini fallback failed. Ollama error: "}

\* The decomposition step written when the gateway gave up.
ExhaustedAtDecomposition(step) ==
  /\ step.stepName = "decomposition"
  /\ step.status = "failed"
  /\ IsComposite(step.errorMessage)

SearchSteps == {SearchStep[a] : a \in AgentNames}

\* C5: when both providers fail at decomposition the session is failed, the
\* status response names decomposition as the failed step, no search step is
\* written, nothing is written after the failed decomposition step and no
\* execution goes on.
C5_DecompositionExhausted ==
  \A s \in SessionIds :
    /\ (gw[s].pc = "thrown" /\ gw[s].modelName = "decomposition") =>
         /\ researchSessions[s].status = "decomposing"
         /\ Range(StepNames(s)) \cap SearchSteps = {}
    /\ (\E i \in 1 .. Len(trajectorySteps[s]) :
          ExhaustedAtDecomposition(trajectorySteps[s][i])) =>
         /\ researchSessions[s].status = "failed"
         /\ LET body == StatusBody(s, researchSessions[s], 0)
            IN /\ body.status = "failed"
               /\ body.error # None
               /\ Get(body.error).failedStep = "decomposition"
               /\ Get(body.error).message = Last(trajectorySteps[s]).errorMessage
         /\ ExhaustedAtDecomposition(Last(trajectorySteps[s]))
         /\ Range(StepNames(s)) \cap (SearchSteps \cup {"steering_wait", "synthesis"}) = {}
         /\ "searching" \notin Range(statusLog[s])
         /\ ~Executing(s)
         /\ gw[s] = IdleFrame
         /\ \A a \in AgentNames : agents[s][a] = "off"

C5_Witness ==
  \E s \in SessionIds :
    /\ Exists(s)
    /\ researchSessions[s].status = "failed"
    /\ trajectorySteps[s] # <<>>
    /\ ExhaustedAtDecomposition(Last(trajectorySteps[s]))
    /\ apiKey
    /\ runs[s].rejected > 0

\* A call of run for a session that is not pending.
RunOnStarted(s) ==
  /\ Exists(s)
  /\ runs'[s].calls = runs[s].calls + 1
  /\ researchSessions[s].status # "pending"

\* C7: a call of run for a session that is not pending is rejected and
\* changes nothing but the count of rejections, and no session ever has more
\* than one execution active, an execution being active only in the states
\* between pending and the terminal ones.
C7_RunOnlyFromPending ==
  /\ [](\A s \in SessionIds :
          /\ runs[s].executions <= 1
          /\ Executing(s) <=>
               (Exists(s) /\ researchSessions[s].status \in DOMAIN CurrentStep))
  /\ [][\A s \in SessionIds :
          RunOnStarted(s) =>
            /\ runs'[s].rejected = runs[s].rejected + 1
            /\ runs'[s].executions = runs[s].executions
            /\ UNCHANGED <<feedVars, request, apiKey, gw, apiVars, statusLog, trajectorySteps, inbox, arrivals,
                           steeringEvents, steering, agents>>]_vars

C7_Witness ==
  \E s \in SessionIds :
    /\ Executing(s)
    /\ runs[s].rejected = 1
    /\ researchSessions[s].status = "searching"

\* The start request of session s asked for steering to be off.
SteeringDisabled(s) ==
  /\ Exists(s)
  /\ requests[s].options # None
  /\ Get(requests[s].options).enableSteering = Some(FALSE)

\* C8: a session started with steering disabled is never in steering_wait and
\* gets no steering_wait step: after decomposing comes searching (or failed).
C8_NoSteeringWhenDisabled ==
  \A s \in SessionIds :
    SteeringDisabled(s) =>
      /\ "steering_wait" \notin Range(statusLog[s])
      /\ "steering_wait" \notin Range(StepNames(s))
      /\ steering[s] = NoSteering
      /\ \A i \in 1 .. Len(statusLog[s]) - 1 :
           statusLog[s][i] = "decomposing" => statusLog[s][i + 1] \in {"searching", "failed"}

C8_Witness ==
  \E s \in SessionIds :
    /\ SteeringDisabled(s)
    /\ statusLog[s] = <<"pending", "decomposing", "searching", "synthesizing", "completed">>

IsApplied(event) == event.appliedSuccessfully

\* The commands applied for session s, in the order they were applied.
Applied(s) ==
  LET events == SelectSeq(steeringEvents[s], IsApplied)
  IN [i \in 1 .. Len(events) |-> events[i].command]

\* C9: the commands applied are the first commands that arrived, in arrival
\* order; applying a non-terminal command leaves the session in steering_wait;
\* the wait is left only with the first terminal command that arrived or with
\* the timeout (or by failing), and a terminal command that arrives after the
\* first one is not applied and does not change where the session goes.
C9_FirstTerminalWins ==
  \A s \in SessionIds :
    LET applied == Applied(s)
        outcome == steering[s].outcome
        waited == "steering_wait" \in Range(statusLog[s])
    IN /\ Len(applied) <= Len(arrivals[s])
       /\ \A i \in 1 .. Len(applied) : applied[i] = arrivals[s][i]
       /\ \A i \in 1 .. Len(applied) :
            applied[i] \in TerminalCommands =>
              /\ i = Len(applied)
              /\ outcome = applied[i]
       /\ (Exists(s) /\ researchSessions[s].status = "steering_wait") =>
            /\ outcome = "none"
            /\ Range(applied) \cap TerminalCommands = {}
            /\ steering[s].directives = applied
       /\ applied # <<>> => waited
       /\ outcome \in {"none", "timeout"} \cup TerminalCommands
       /\ outcome \in TerminalCommands => (applied # <<>> /\ Last(applied) = outcome)
       /\ outcome = "timeout" => Range(applied) \cap TerminalCommands = {}
       /\ outcome # "none" =>
            /\ waited
            /\ researchSessions[s].status \in PassedSteering
            /\ \A i \in 1 .. Len(statusLog[s]) - 1 :
                 statusLog[s][i] = "steering_wait" =>
                   statusLog[s][i + 1] = AfterWait(outcome)
       /\ (waited /\ researchSessions[s].status # "steering_wait" /\ outcome = "none") =>
            researchSessions[s].status = "failed"

C9_Witness ==
  \E s \in SessionIds :
    /\ arrivals[s] = <<"continue", "force_stop">>
    /\ Applied(s) = <<"continue">>
    /\ Len(steeringEvents[s]) = 2
    /\ ~ steeringEvents[s][2].appliedSuccessfully
    /\ Exists(s)
    /\ "searching" \in Range(statusLog[s])
    /\ researchSessions[s].status = "completed"

\* C10: once force_stop is received in the wait the session is in
\* synthesizing (and then a terminal state) without having been in searching:
\* no agent ran, no search step was written, and the sources are those found
\* before, which is none; this is so whatever was left of the wait.
C10_ForceStopToSynthesis ==
  \A s \in SessionIds :
    steering[s].outcome = "force_stop" =>
      /\ researchSessions[s].status \in {"synthesizing", "completed", "failed"}
      /\ "searching" \notin Range(statusLog[s])
      /\ \A i \in 1 .. Len(statusLog[s]) - 1 :
           statusLog[s][i] = "steering_wait" => statusLog[s][i + 1] = "synthesizing"
      /\ Range(StepNames(s)) \cap SearchSteps = {}
      /\ \A a \in AgentNames : agents[s][a] = "off"
      /\ researchSessions[s].sourcesFound = 0

C10_Witness ==
  \E s \in SessionIds :
    /\ steering[s].outcome = "force_stop"
    /\ steering[s].endedAt = WaitTicks
    /\ researchSessions[s].status = "synthesizing"

\* ------------------------------------------------- C11: the wait times out
TimeoutSteps(s) ==
  {i \in 1 .. Len(trajectorySteps[s]) :
     /\ trajectorySteps[s][i].stepName = "steering_wait"
     /\ trajectorySteps[s][i].output = "timeout"}

InWait(s) == Exists(s) /\ researchSessions[s].status = "steering_wait"

\* The wait of session s is over without a terminal command received and
\* without the session failing in it.
LeftWaitUnsteered(s) ==
  /\ Exists(s)
  /\ "steering_wait" \in Range(statusLog[s])
  /\ researchSessions[s].status # "steering_wait"
  /\ Range(Applied(s)) \cap TerminalCommands = {}
  /\ \A i \in 1 .. Len(statusLog[s]) - 1 :
       statusLog[s][i] = "steering_wait" => statusLog[s][i + 1] # "failed"

AgentSteps(s, a, status) ==
  {i \in 1 .. Len(trajectorySteps[s]) :
     /\ trajectorySteps[s][i].stepName = SearchStep[a]
     /\ trajectorySteps[s][i].status = status}

RECURSIVE SumResults(_, _)
\* The sources of the first n steps of a trajectory.
SumResults(steps, n) ==
  IF n = 0 THEN 0 ELSE SumResults(steps, n - 1) + steps[n].resultsCount

FailedAgents(s) == {a \in AgentNames : agents[s][a] = "failed"}

Count(seq, x) == Cardinality({i \in 1 .. Len(seq) : seq[i] = x})

EventCommands(s) == [i \in 1 .. Len(steeringEvents[s]) |-> steeringEvents[s][i].command]

IsPrefix(a, b) == Len(a) <= Len(b) /\ \A i \in 1 .. Len(a) : a[i] = b[i]

\* C13: every command submitted is in exactly one place, still queued in the
\* inbox or recorded by exactly one steering event, applied or failed to
\* apply; once the session has passed the wait nothing is left queued; a
\* command submitted before the session has passed the wait is queued, one
\* submitted after is recorded as failed at once; a recorded event never
\* changes.
C13_CommandsAccountedFor ==
  /\ [](\A s \in SessionIds :
          /\ Len(steeringEvents[s]) + Len(inbox[s]) = Len(arrivals[s])
          /\ \A c \in SteeringCommand :
               Count(EventCommands(s), c) + Count(inbox[s], c) = Count(arrivals[s], c)
          /\ (Exists(s) /\ researchSessions[s].status \in PassedSteering) => inbox[s] = <<>>
          /\ \A i \in 1 .. Len(steeringEvents[s]) :
               steeringEvents[s][i].appliedSuccessfully =>
                 /\ Len(Applied(s)) <= Len(steering[s].directives) + 1
                 /\ IsPrefix(steering[s].directives, Applied(s)))
  /\ [][\A s \in SessionIds :
          /\ IsPrefix(steeringEvents[s], steeringEvents'[s])
          /\ Len(arrivals'[s]) > Len(arrivals[s]) =>
               IF researchSessions[s].status \in PassedSteering
                 THEN /\ inbox'[s] = inbox[s]
                      /\ steeringEvents'[s] =
                           Append(steeringEvents[s],
                                  SteeringEvent(Last(arrivals'[s]), FALSE, NoStep))
                 ELSE /\ inbox'[s] = Append(inbox[s], Last(arrivals'[s]))
                      /\ steeringEvents'[s] = steeringEvents[s]]_vars

C13_Witness ==
  \E s \in SessionIds :
    /\ Exists(s)
    /\ researchSessions[s].status = "completed"
    /\ arrivals[s] = <<"add_source", "exclude_topic">>
    /\ inbox[s] = <<>>
    /\ steeringEvents[s] =
         <<SteeringEvent("add_source", TRUE, 1), SteeringEvent("exclude_topic", FALSE, NoStep)>>

\* ------------------------------------ C14: delivery at most once, in order
StrictlyIncreasing(seq) == \A i \in 1 .. Len(seq) - 1 : seq[i] < seq[i + 1]

\* C14: what a subscriber has received from a session's feed, and what is on
\* its way to it, are events of that feed in the order they were published,
\* each at most once, and all of them published after the subscriber
\* connected.
C14_OrderedAtMostOnce ==
  \A c \in Subscribers :
    LET conn == connections[c]
        seen == conn.received \o conn.queue
    IN conn.open =>
         /\ StrictlyIncreasing(seen)
         /\ \A i \in 1 .. Len(seen) :
              /\ seen[i] > conn.since
              /\ seen[i] <= published[conn.session]

C14_Witness ==
  /\ connections["c1"].open /\ connections["c1"].since = 0
  /\ connections["c1"].received = [i \in 1 .. MaxEvents |-> i]
  /\ connections["c2"].open /\ connections["c2"].since = 1
  /\ connections["c2"].received = <<2>>

\* ------------------------------------------ C15: step numbers count upwards
StepNumbers(s) == [i \in 1 .. Len(trajectorySteps[s]) |-> trajectorySteps[s][i].stepNumber]

Accepted == request.route = "start" /\ response.status = 201

GivenOptions == IF request.body.options = None THEN Options(None, None, None)
                ELSE Get(request.body.options)

\* C16: a start request answered 201 has added exactly one row and left the
\* others as they were; the row is owned by the user of the request, is
\* pending, holds the query, and holds each option as given or, when not
\* given, enableSteering true, maxSources 30 and the agents web, academic and
\* github; the 201 names that row and the status pending.
C16_AcceptedStartCreatesSession ==
  [][Accepted' =>
       \E id \in ApiSessionIds :
         /\ id \notin DOMAIN researchSessions
         /\ DOMAIN researchSessions' = DOMAIN researchSessions \cup {id}
         /\ \A old \in DOMAIN researchSessions : researchSessions'[old] = researchSessions[old]
         /\ request'.user # None
         /\ researchSessions'[id].userId = Get(request'.user)
         /\ researchSessions'[id].status = "pending"
         /\ researchSessions'[id].query = Get(request'.body.query)
         /\ LET given == GivenOptions'
                stored == researchSessions'[id].metadata.options
            IN /\ stored.enableSteering =
                    (IF given.enableSteering = None THEN TRUE ELSE Get(given.enableSteering))
               /\ stored.maxSources =
                    (IF given.maxSources = None THEN 30 ELSE Get(given.maxSources).whole)
               /\ stored.searchAgents =
                    (IF given.searchAgents = None THEN <<"web", "academic", "github">>
                     ELSE Get(given.searchAgents))
         /\ response'.body = [sessionId |-> id, status |-> "pending"]]_vars

C16_Witness ==
  /\ Accepted
  /\ request.body = Body(Some(QueryMin), None)
  /\ request.user = Some("u2")
  /\ DOMAIN researchSessions = ApiSessionIds
  /\ \E id \in ApiSessionIds :
       /\ response.body.sessionId = id
       /\ researchSessions[id].userId = "u2"
       /\ researchSessions[id].metadata.options =
            Options(TRUE, 30, <<"web", "academic", "github">>)

\* ------------------------------------ C17: the start route and the workflow
Pending(id) == id \in DOMAIN researchSessions /\ researchSessions[id].status = "pending"

LeftPending(id) == id \in DOMAIN researchSessions /\ researchSessions[id].status # "pending"

\* C17: every session the start route creates eventually leaves the pending
\* status, the route having triggered the workflow for it.
C17_CreatedSessionLeavesPending ==
  \A id \in ApiSessionIds : Pending(id) ~> LeftPending(id)

\* ------------------------------------- C18: a start request out of bounds
\* The query is missing, shorter than 10 or longer than 1000 characters.
QueryOutOfBounds(body) ==
  body.query = None \/ Get(body.query) < 10 \/ Get(body.query) > 1000

\* maxSources is given and is not an integer in 1..100, or an agent is given
\* that is not web, academic or github.
OptionsOutOfBounds(body) ==
  /\ body.options # None
  /\ LET o == Get(body.options)
     IN \/ /\ o.maxSources # None
           /\ \/ Get(o.maxSources).frac
              \/ Get(o.maxSources).whole < 1
              \/ Get(o.maxSources).whole > 100
        \/ /\ o.searchAgents # None
           /\ \E i \in 1 .. Len(Get(o.searchAgents)) :
                Get(o.searchAgents)[i] \notin {"web", "academic", "github"}

\* A start request of an authenticated user, with a body that parses, that
\* reaches the route handler.
Validated ==
  request.route = "start" /\ request.user # None /\ request.json

C19_StoredAgentsNonEmpty ==
  \A id \in DOMAIN researchSessions :
    LET stored == researchSessions[id].metadata.options.searchAgents
    IN /\ stored # <<>>
       /\ \A i \in 1 .. Len(stored) : stored[i] \in {"web", "academic", "github"}

\* ------------------------------------ C20: a start request without a user
Unauthenticated == request.route = "start" /\ request.user = None

\* C20: a start request that carries no authenticated user is answered 401
\* Unauthorized and adds no row; every row of the table is owned by a user.
C20_UnauthenticatedGets401 ==
  /\ [](/\ Unauthenticated => response = UNAUTHORIZED
        /\ \A id \in DOMAIN researchSessions : researchSessions[id].userId \in Users)
  /\ [][Unauthenticated' => researchSessions' = researchSessions]_vars

\* ------------------------------------------------------ usage normalisation
Present(v) == v # Absent

\* The first of the two fields that the provider reports, else 0.
FirstReported(raw, field, other) ==
  IF Present(raw[field]) THEN raw[field]
  ELSE IF Present(raw[other]) THEN raw[other]
  ELSE 0

Answered(f) == f.pc = "returned"

\* C23: the usage of a returned result is the normalisation of the usage the
\* provider reported: promptTokens is the provider's promptTokens if present,
\* else inputTokens, else 0; completionTokens is completionTokens if present,
\* else outputTokens, else 0; totalTokens is the provider's totalTokens if
\* present, else the sum of the two normalised counts. A count of 0 is present.
C23_UsageNormalized ==
  \A c \in Callers :
    Answered(gw[c]) =>
      LET raw == gw[c].rawUsage
          usage == gw[c].result.usage
      IN /\ usage.promptTokens = FirstReported(raw, "promptTokens", "inputTokens")
         /\ usage.completionTokens = FirstReported(raw, "completionTokens", "outputTokens")
         /\ usage.totalTokens =
              IF Present(raw.totalTokens)
                THEN raw.totalTokens
                ELSE usage.promptTokens + usage.completionTokens

\* A provider that reports promptTokens 0 beside inputTokens 1, outputTokens
\* only, and no total: the result has 0 prompt tokens and a total of 1.
C23_Witness ==
  \E c \in Callers :
    /\ Answered(gw[c])
    /\ gw[c].rawUsage.promptTokens = 0
    /\ gw[c].rawUsage.inputTokens = 1
    /\ gw[c].rawUsage.completionTokens = Absent
    /\ gw[c].rawUsage.outputTokens = 1
    /\ gw[c].rawUsage.totalTokens = Absent
    /\ gw[c].result.usage = [promptTokens |-> 0, completionTokens |-> 1, totalTokens |-> 1]

\* ------------------------------------------------------- proxy properties
\* The text of the pathname begins with the text of the prefix.
BeginsWith(pathname, prefix) ==
  Len(pathname) >= Len(prefix) /\ SubSeq(pathname, 1, Len(prefix)) = prefix

\* The pieces of a pathname that open a path segment.
IsSegment(piece) ==
  piece \in {"/", "/about", "/login", "/reset", "/signup", "/confirm", "/dashboard",
             "/settings", "/logo", "/api", "/research", "/start", "/[id]", "/status",
             "/history", "/health", "/_next", "/static", "/app.js", "/favicon.ico"}

\* The pathname is the prefix itself or a path below it.
Under(pathname, prefix) ==
  /\ BeginsWith(pathname, prefix)
  /\ Len(pathname) > Len(prefix) => IsSegment(pathname[Len(prefix) + 1])

Paged == request.route = "page"

ToLogin == RedirectTo(<<"/login">>, request.pathname)

ToDashboard == RedirectTo(<<"/dashboard">>, <<>>)

\* C26 as claimed: an unauthenticated request to a path under /dashboard or
\* /api/research is redirected to /login with the path, an authenticated one
\* to /login or /signup is redirected to /dashboard, every other passes.
C26_Original ==
  Paged =>
    LET p == request.pathname
    IN IF request.user = None /\ (Under(p, <<"/dashboard">>) \/ Under(p, <<"/api", "/research">>))
         THEN response = ToLogin
       ELSE IF request.user # None /\ (Under(p, <<"/login">>) \/ Under(p, <<"/signup">>))
         THEN response = ToDashboard
       ELSE response.kind = "next"

Static(p) ==
  \/ BeginsWith(p, <<"/_next", "/static">>)
  \/ BeginsWith(p, <<"/_next", "/image">>)
  \/ BeginsWith(p, <<"/favicon.ico">>)
  \/ p[Len(p)] \in {".svg", ".png", ".jpg", ".jpeg", ".gif", ".webp"}

\* C26: for a request the matcher selects (not a static file or an image),
\* the proxy goes by authentication state and by how the text of the pathname
\* begins: an unauthenticated request whose pathname begins with /dashboard or
\* /api/research is redirected to /login with redirect set to the pathname
\* (the query string is dropped), an authenticated request whose pathname
\* begins with /login or /signup is redirected to /dashboard, and every other
\* request passes through, as does every request the matcher leaves out.
C26_ProxyByAuthState ==
  Paged =>
    LET p == request.pathname
    IN IF Static(p)
         THEN response.kind = "next"
       ELSE IF BeginsWith(p, <<"/login">>) \/ BeginsWith(p, <<"/signup">>)
         THEN response = IF request.user # None THEN ToDashboard ELSE PassThrough
       ELSE IF request.user = None
               /\ (BeginsWith(p, <<"/dashboard">>) \/ BeginsWith(p, <<"/api", "/research">>))
         THEN response = ToLogin
       ELSE response.kind = "next"

\* An unauthenticated request for a path below /api/research, with a query
\* string, redirected to /login with the pathname alone.
C26_Witness ==
  /\ Paged
  /\ request.user = None
  /\ request.pathname = <<"/api", "/research", "/history">>
  /\ request.search = <<"?tab=1">>
  /\ request.hops = 0
  /\ response = RedirectTo(<<"/login">>, <<"/api", "/research", "/history">>)

\* C30: for a fixed authentication state the proxy redirects a navigation at
\* most once: the request that follows a redirect (to /login without a user,
\* to /dashboard with one) passes through, so no redirect follows a redirect.
C30_NoRedirectLoop ==
  Paged =>
    /\ request.hops <= 1
    /\ request.hops = 1 =>
         /\ response.kind = "next"
         /\ request.pathname = IF request.user = None THEN <<"/login">> ELSE <<"/dashboard">>

\* An unauthenticated visitor of the dashboard, sent to /login, stays there.
C30_Witness ==
  /\ Paged
  /\ request.user = None
  /\ request.from = <<"/dashboard", "/settings">>
  /\ request.pathname = <<"/login">>
  /\ request.hops = 1
  /\ response.kind = "next"

\* ------------------------------------------------ status response properties
\* The last request was a status request and was answered with a status body.
StatusAnswered == request.route = "status" /\ response.status = 200

InvariantViolation(message) == message = <<"Internal invariant violation">>

\* C21: a status response that reports a failed session carries an error with
\* a message and the name of the failing step, both not empty, and a
\* retryable flag that is true unless the failure is an invariant violation.
C21_FailedCarriesRetryability ==
  (StatusAnswered /\ response.body.status = "failed") =>
    /\ response.body.error # None
    /\ LET error == Get(response.body.error)
       IN /\ error.message # <<>>
          /\ error.failedStep # ""
          /\ error.retryable <=> ~InvariantViolation(error.message)

\* C22: in a status response steeringPrompt is present exactly when the status
\* is steering_wait, error exactly when it is failed, finalReport, tokensUsed
\* and costUSD only when it is completed, and estimatedRemainingSeconds is
\* absent exactly when the status is completed or failed.
C22_FieldsFollowStatus ==
  StatusAnswered =>
    LET body == response.body
    IN /\ body.status \in SessionStatus
       /\ body.steeringPrompt # None <=> body.status = "steering_wait"
       /\ body.error # None <=> body.status = "failed"
       /\ body.finalReport # None => body.status = "completed"
       /\ body.tokensUsed # None => body.status = "completed"
       /\ body.costUSD # None => body.status = "completed"
       /\ body.estimatedRemainingSeconds = None <=> body.status \in {"completed", "failed"}

\* A poll in steering_wait after the assumed workflow time has passed: the
\* prompt is there and the estimate is there, at 0; and the session has moved
\* on since.
C22_Witness ==
  /\ StatusAnswered
  /\ response.body.status = "steering_wait"
  /\ response.body.steeringPrompt # None
  /\ response.body.estimatedRemainingSeconds = Some(0)
  /\ response.body.finalReport = None
  /\ researchSessions[request.id].status = "completed"

\* C28: the progress a status response reports is within 0 .. 100, is 100
\* exactly when the status is completed, and from one response to the next
\* for the same session it does not decrease while the session advances
\* along pending, decomposing, steering_wait, searching, synthesizing,
\* completed.
C28_ProgressNeverDecreases ==
  /\ [](StatusAnswered =>
          /\ response.body.progress \in 0 .. 100
          /\ response.body.progress = 100 <=> response.body.status = "completed")
  /\ [][(/\ StatusAnswered
         /\ request'.route = "status"
         /\ response'.status = 200
         /\ request'.id = request.id
         /\ response.body.status # "failed"
         /\ response'.body.status # "failed"
         /\ Rank[response'.body.status] >= Rank[response.body.status])
        => response'.body.progress >= response.body.progress]_vars

\* ----------------------------------------------- history response properties
\* The last request was a history request that reached the route handler
\* with an authenticated user.
HistoryHandled == request.route = "history" /\ request.user # None

\* Every parameter the query string gives is a value the documentation
\* allows: a limit of 1 to 100, an offset of 0 or more, a status filter.
GivenAllowed(search) ==
  /\ search.limit # None => Get(search.limit) \in {"1", "2", "5", "20", "100"}
  /\ search.offset # None => Get(search.offset) \in {"0", "1", "2", "5", "20", "100", "101"}
  /\ search.status # None => Get(search.status) \in {"completed", "failed", "all"}

\* The number a parameter stands for, or the documented default.
NumberOr(param, default) ==
  IF param = None THEN default ELSE ToNumber(Text(Get(param))).whole

\* The bodies the documented parameters give over the table as it is.
Documented(userId, search) ==
  {HistoryBody(userId, NumberOr(search.limit, 20), NumberOr(search.offset, 0),
               OrElse(search.status, "all"), byStartedAt) :
     byStartedAt \in Orderings(DOMAIN researchSessions)}

\* C24: a history request whose query string leaves parameters out, and gives
\* allowed values for the others, is not rejected, and when it is answered
\* the answer is that of limit 20, offset 0 and status all for the parameters
\* left out.
C24_DefaultsApplied ==
  (HistoryHandled /\ GivenAllowed(request.search)) =>
    /\ response.status # 400
    /\ response.status = 200 =>
         response.body \in Documented(Get(request.user), request.search)

\* The sessions of a user that pass a status filter, in the table as it is.
MatchingSessions(userId, filter) ==
  {id \in DOMAIN researchSessions :
     /\ researchSessions[id].userId = userId
     /\ filter # "all" => researchSessions[id].status = filter}

\* C25: in the answer to a history request, total is the number of the
\* requesting user's sessions that pass the status filter, the page holds the
\* sessions from the offset on, up to the limit, and hasMore is true exactly
\* when a matching session lies beyond the page (offset + returned < total);
\* at or past the end the page is empty and hasMore is false.
C25_TotalAndHasMore ==
  [][(/\ request'.route = "history"
      /\ response'.status = 200
      /\ <<request', response'>> # <<request, response>>)
     => LET body == response'.body
            limit == ToNumber(Text(Get(request'.search.limit))).whole
            offset == ToNumber(Text(Get(request'.search.offset))).whole
            matching == MatchingSessions(Get(request'.user), Get(request'.search.status))
            total == Cardinality(matching)
            returned == Len(body.sessions)
        IN /\ body.total = total
           /\ returned = Max(0, Min(limit, total - offset))
           /\ \A i \in 1 .. returned : body.sessions[i].id \in matching
           /\ body.hasMore <=> offset + returned < total
           /\ body.hasMore <=> total - offset > limit
           /\ offset >= total => ~body.hasMore /\ returned = 0]_vars

\* A first page of one row for a user with two sessions, one of them past
\* pending: total 2, and more to come.
C25_Witness ==
  /\ request.route = "history"
  /\ response.status = 200
  /\ request.search = Search(Some("1"), Some("0"), Some("all"))
  /\ response.body.total = 2
  /\ Len(response.body.sessions) = 1
  /\ response.body.hasMore
  /\ response.body.sessions[1].status = "synthesizing"

\* ------------------------------------------------------------ user isolation
Own(userId) == {id \in DOMAIN researchSessions : researchSessions[id].userId = userId}

\* The last request reached a route handler with an authenticated user.
Handled(route) ==
  request.route = route /\ request.user # None /\ response.status # 307

\* C27: what a user is told depends on that user's own sessions only. A
\* status request is answered with a status body only for a session of the
\* requesting user, and the body is that of the user's row; for a session of
\* another user the answer is the 404 given for a session that does not
\* exist. A history answer lists only sessions of the requesting user, as
\* their rows have them, and its total counts those alone.
C27_UserIsolation ==
  /\ Handled("status") =>
       LET userId == Get(request.user)
       IN /\ response.status \in {200, 404, 500}
          /\ response.status = 200 =>
               /\ request.id \in Own(userId)
               /\ response.body.sessionId = request.id
               /\ response.body.status = researchSessions[request.id].status
          /\ (request.id \notin Own(userId) /\ response.status # 500) =>
               response = [status |-> 404,
                           body |-> [error |-> [message |-> "Research session not found"]]]
  /\ (Handled("history") /\ response.status = 200) =>
       LET userId == Get(request.user)
           body == response.body
       IN /\ \A i \in 1 .. Len(body.sessions) :
               /\ body.sessions[i].id \in Own(userId)
               /\ body.sessions[i].query = researchSessions[body.sessions[i].id].query
               /\ body.sessions[i].status = researchSessions[body.sessions[i].id].status
          /\ body.total = Cardinality(MatchingSessions(userId, Get(request.search.status)))
          /\ body.total <= Cardinality(Own(userId))

\* A user asks for the status of a session that another user owns, and is
\* told it is not there.
C27_Witness ==
  /\ Handled("status")
  /\ request.user = Some("u2")
  /\ request.id \in Own("u1")
  /\ response.status = 404
  /\ Own("u2") # {}

\* ---------------------------------------------------------------- frame
\* C29: a status or history request, answered or rejected, leaves every
\* session row, and the trajectory and steering records, as they were; a
\* start request leaves every existing row as it was and adds one row when it
\* is answered 201 and none otherwise.
C29_ReadsChangeNothing ==
  [][/\ request'.route \in {"status", "history"} =>
          /\ researchSessions' = researchSessions
          /\ UNCHANGED <<requests, trajectorySteps, steeringEvents>>
     /\ request'.route = "start" =>
          /\ \A id \in DOMAIN researchSessions :
               id \in DOMAIN researchSessions' /\ researchSessions'[id] = researchSessions[id]
          /\ response'.status = 201 =>
               /\ Cardinality(DOMAIN researchSessions') = Cardinality(DOMAIN researchSessions) + 1
               /\ response'.body.sessionId \in DOMAIN researchSessions' \ DOMAIN researchSessions
          /\ response'.status # 201 => researchSessions' = researchSessions]_vars

\* A history request that is rejected and a table that holds two sessions.
C29_Witness ==
  /\ request.route = "history"
  /\ response.status = 400
  /\ Cardinality(DOMAIN researchSessions) = 2

====
